---- MODULE Spec2Model ----
(***************************************************************************)
(* Model of the event backbone (shared/communication/events.py) and of the *)
(* collaboration service's ConnectionManager                               *)
(* (services/collaboration_service/main.py).                               *)
(*                                                                         *)
(* Thirteen specifications share the variables:                            *)
(*   SpecPublisher  EventPublisher.publish over the five STREAMS           *)
(*   Spec           EventConsumer instances of one group on one stream     *)
(*   SpecLive       the same under fair scheduling                         *)
(*   SpecShutdown   the same with the consume tasks cancelled              *)
(*   SpecSessions   ConnectionManager connect / disconnect / broadcast     *)
(*   SpecTransform  transform and apply_operation on bounded inputs        *)
(*   SpecEndpoint   websocket_endpoint calls on the ConnectionManager      *)
(*   SpecLockout    user service login with AccountLockoutManager          *)
(*   SpecRateLimit  user service RateLimitMiddleware                       *)
(*   SpecGateway    API gateway RateLimitMiddleware                        *)
(*   SpecLoop       the receive loops of two endpoint calls, await by await *)
(*   SpecBreaker    CircuitBreaker of the service client                   *)
(*   SpecConcurrent API gateway RateLimitMiddleware, concurrent requests   *)
(***************************************************************************)
EXTENDS Integers, Sequences, FiniteSets, TLC

VARIABLES
    streams,            \* Redis: stream name -> sequence of entries (id = index)
    pub,                \* the last EventPublisher.publish call and how it ended
    group,              \* Redis consumer group of the source stream
    cons,               \* per EventConsumer: position in consume/_process_event
    hist,               \* per source entry: handler calls, whether one
                        \* returned, acks, deliveries; and whether any
                        \* handler call raised
    active_connections, \* ConnectionManager.active_connections
    bc,                 \* the broadcast in progress
    inbox,              \* per websocket: messages send_json was given
    mgr,                \* the last ConnectionManager call and how it ended
    ot,                 \* a content, two operations, and the last call of
                        \* transform / apply_operation on them
    task,               \* per websocket_endpoint call: the await it is at
                        \* or how it ended, and the event it handles
    doc_stream,         \* Redis: document_id -> entries of doc_stream:{id}
    user_cursors,       \* document_id -> (user_id -> cursor)
    received,           \* messages receive_json has returned so far
    lockout,            \* user service, Redis: email -> lockout:{email}
    login,              \* user service: the last login and the failed
                        \* logins of each email
    rl,                 \* user service, Redis: client address -> rl:{ip}
    rl_last,            \* user service: the last request the rate
                        \* limiter answered or handed to call_next
    rl_task,            \* user service: where each request in the rate
                        \* limiter is, and which rl:{ip} keys have a
                        \* time to live
    gw,                 \* gateway: the rate_limit:* keys and the requests
    conn,               \* the receive loops of two endpoint calls, await
                        \* by await: the stream and what each was sent
    breaker,            \* a CircuitBreaker, the clock and the last call
    gwc                 \* gateway: one rate_limit key under concurrent
                        \* requests

vars == <<streams, pub, group, cons, hist, active_connections, bc, inbox, mgr,
          ot, task, doc_stream, user_cursors, received,
          lockout, login, rl, rl_last, rl_task, gw, conn, breaker, gwc>>

eventVars == <<streams, pub, group, cons, hist>>
sessionVars == <<active_connections, bc, inbox, mgr>>
otVars == <<ot>>
endpointVars == <<task, doc_stream, user_cursors, received>>
serviceVars == <<lockout, login, rl, rl_last, rl_task, gw>>
clientVars == <<conn, breaker, gwc>>

-----------------------------------------------------------------------------
(* Event schemas and stream names                                          *)

\* An event type is its name split at '_': 'user_joined_session' is
\* <<"user", "joined", "session">>.
UserEventTypes ==
    { <<"user", "registered">>, <<"user", "updated">>, <<"user", "deleted">> }

DocumentEventTypes ==
    { <<"document", "created">>, <<"document", "updated">>,
      <<"document", "shared">>, <<"document", "deleted">> }

CollaborationEventTypes ==
    { <<"user", "joined", "session">>, <<"user", "left", "session">>,
      <<"document", "changed">> }

\* Types publish may be called with that EVENT_SCHEMAS does not hold.
UnregisteredEventTypes ==
    { <<"order", "created">>, <<"user", "promoted">>, <<"user">>,
      <<"user", "joinedly">>, <<"document", "changedlog", "x">> }

RegisteredEventTypes ==
    UserEventTypes \cup DocumentEventTypes \cup CollaborationEventTypes

EventTypes == RegisteredEventTypes \cup UnregisteredEventTypes

FieldNames == {"event_type", "user_id", "document_id", "timestamp", "payload"}

\* The required fields of each pydantic model, with the type each is parsed to.
UserEvent ==
    [event_type |-> "str", user_id |-> "int",
     timestamp |-> "datetime", payload |-> "dict"]

DocumentEvent ==
    [event_type |-> "str", document_id |-> "int",
     timestamp |-> "datetime", payload |-> "dict"]

CollaborationEvent ==
    [event_type |-> "str", document_id |-> "int", user_id |-> "int",
     timestamp |-> "datetime", payload |-> "dict"]

EVENT_SCHEMAS ==
    [t \in RegisteredEventTypes |->
        IF t \in UserEventTypes THEN UserEvent
        ELSE IF t \in DocumentEventTypes THEN DocumentEvent
        ELSE CollaborationEvent]

STREAMS ==
    [user |-> "user_events", document |-> "document_events",
     collaboration |-> "collaboration_events",
     dead_letter |-> "dead_letter_events", audit |-> "event_audit_store"]

\* The stream the consumers of Spec are attached to (EventConsumer.stream):
\* a document's stream, which publish_event of the collaboration service
\* appends to.  EventPublisher.publish appends to no stream: json.dumps
\* raises on every validated event (see JsonSerializable).
SourceStream == "doc_stream"

StreamNames ==
    { STREAMS.user, STREAMS.document, STREAMS.collaboration,
      STREAMS.dead_letter, STREAMS.audit, SourceStream }

NoStream == "none"

-----------------------------------------------------------------------------
(* Redis stream primitives                                                 *)

\* XADD: the entry gets the next id of its stream, here its index.
XAdd(s, stream, event, original_id) ==
    [s EXCEPT ![stream] =
        Append(@, [event |-> event, original_id |-> original_id])]

XLen(s, stream) == Len(s[stream])

-----------------------------------------------------------------------------
(* EventPublisher                                                          *)

\* event_type.startswith(prefix + '_') for a one-word prefix.
StartsWithWord(event_type, word) ==
    Len(event_type) >= 2 /\ event_type[1] = word

\* The characters of the words event types are made of.
Spelling ==
    [user |-> <<"u", "s", "e", "r">>,
     document |-> <<"d", "o", "c", "u", "m", "e", "n", "t">>,
     order |-> <<"o", "r", "d", "e", "r">>,
     registered |-> <<"r", "e", "g", "i", "s", "t", "e", "r", "e", "d">>,
     updated |-> <<"u", "p", "d", "a", "t", "e", "d">>,
     deleted |-> <<"d", "e", "l", "e", "t", "e", "d">>,
     created |-> <<"c", "r", "e", "a", "t", "e", "d">>,
     shared |-> <<"s", "h", "a", "r", "e", "d">>,
     joined |-> <<"j", "o", "i", "n", "e", "d">>,
     left |-> <<"l", "e", "f", "t">>,
     changed |-> <<"c", "h", "a", "n", "g", "e", "d">>,
     session |-> <<"s", "e", "s", "s", "i", "o", "n">>,
     promoted |-> <<"p", "r", "o", "m", "o", "t", "e", "d">>,
     joinedly |-> <<"j", "o", "i", "n", "e", "d", "l", "y">>,
     joined2 |-> <<"j", "o", "i", "n", "e", "d", "2">>,
     leftover |-> <<"l", "e", "f", "t", "o", "v", "e", "r">>,
     changedlog |-> <<"c", "h", "a", "n", "g", "e", "d", "l", "o", "g">>,
     x |-> <<"x">>]

\* word.startswith(prefix), character by character.
StartsWith(word, prefix) ==
    /\ Len(prefix) <= Len(word)
    /\ SubSeq(word, 1, Len(prefix)) = prefix

\* event_type.startswith(w1 + '_' + w2): the first word is w1 and the
\* second begins with the characters of w2 ('user_joinedly' starts with
\* 'user_joined').
StartsWithWords(event_type, w1, w2) ==
    /\ Len(event_type) >= 2
    /\ event_type[1] = w1
    /\ StartsWith(Spelling[event_type[2]], Spelling[w2])

_get_stream(event_type) ==
    IF StartsWithWord(event_type, "user") THEN STREAMS.user
    ELSE IF StartsWithWord(event_type, "document") THEN STREAMS.document
    ELSE IF \/ StartsWithWords(event_type, "user", "joined")
            \/ StartsWithWords(event_type, "user", "left")
            \/ StartsWithWords(event_type, "document", "changed")
         THEN STREAMS.collaboration
    ELSE STREAMS.dead_letter

\* What publish may be given as data: per field, a value the schema's type
\* accepts ("valid"), one it rejects ("invalid"), or no such key ("absent").
\* The inputs are the dicts with at most one field that is not valid, and
\* the empty dict.
DataInputs ==
    { [f \in FieldNames |-> IF f = g THEN v ELSE "valid"] :
        g \in FieldNames, v \in {"valid", "absent", "invalid"} }
    \cup { [f \in FieldNames |-> "absent"] }

\* IsRegistered without the membership test.
IsRegistered_any(event_type) == event_type \in EventTypes

\* `event_type not in EVENT_SCHEMAS` negated.
IsRegistered(event_type) == event_type \in DOMAIN EVENT_SCHEMAS

\* ValidationErrors with user_id left optional.
ValidationErrors_optional_user(schema, data) ==
    { f \in DOMAIN schema \ {"user_id"} : data[f] # "valid" }

\* schema(**data): the fields pydantic reports; keys the model does not
\* declare are ignored.
ValidationErrors(schema, data) ==
    { f \in DOMAIN schema : data[f] # "valid" }

\* event.dict(): the declared fields only, each holding a value of its
\* declared type (timestamp is a datetime object).
EventDict(schema) == [f \in DOMAIN schema |-> schema[f]]

\* json.dumps(event_data) raises TypeError on a datetime object: the call
\* passes no default= encoder.  Every schema declares timestamp: datetime
\* and event.dict() keeps the parsed datetime, so no validated event is
\* serializable.
JsonSerializable(event_data) ==
    \A f \in DOMAIN event_data : event_data[f] # "datetime"

JsonDumps(event_type, event_data) ==
    [event_type |-> event_type, fields |-> DOMAIN event_data]

PubResult(s, outcome, stream, errors) ==
    [streams |-> s, outcome |-> outcome, stream |-> stream, errors |-> errors]

\* EventPublisher.publish; xadd1 and xadd2 tell whether Redis accepts the
\* primary and the audit append.
publish(s, event_type, data, xadd1, xadd2) ==
    IF ~IsRegistered(event_type)
    THEN PubResult(s, "ValueError", NoStream, {})
    ELSE IF event_type \notin DOMAIN EVENT_SCHEMAS
    THEN PubResult(s, "KeyError", NoStream, {})
    ELSE
    LET schema == EVENT_SCHEMAS[event_type]
        errors == ValidationErrors(schema, data)
        stream == _get_stream(event_type)
        event_data == EventDict(schema)
    IN  IF errors # {}
        THEN PubResult(s, "ValidationError", NoStream, errors)
        ELSE IF ~JsonSerializable(event_data)
        THEN PubResult(s, "TypeError", stream, {})
        ELSE IF ~xadd1
        THEN PubResult(s, "ConnectionError", stream, {})
        ELSE
        LET s1 == XAdd(s, stream, JsonDumps(event_type, event_data), 0)
        IN  IF ~xadd2
            THEN PubResult(s1, "ConnectionError", stream, {})
            ELSE PubResult(
                    XAdd(s1, STREAMS.audit,
                         JsonDumps(event_type, event_data), 0),
                    "ok", stream, {})

Publish ==
    \E event_type \in EventTypes, data \in DataInputs, xadd1, xadd2 \in BOOLEAN :
        LET r == publish(streams, event_type, data, xadd1, xadd2)
        IN  /\ streams' = r.streams
            /\ pub' = [event_type |-> event_type, data |-> data,
                       xadd1 |-> xadd1, xadd2 |-> xadd2,
                       outcome |-> r.outcome, stream |-> r.stream,
                       errors |-> r.errors,
                       appended |-> { n \in StreamNames :
                                        XLen(r.streams, n) # XLen(streams, n) }]
            /\ UNCHANGED <<group, cons, hist, sessionVars, otVars, endpointVars, serviceVars, clientVars>>

-----------------------------------------------------------------------------
(* Redis consumer group of the source stream                               *)

MaxLog == 2             \* entries ever appended to the source stream

max_retries == 5        \* EventConsumer.__init__ default
ReadCount == 10         \* count= of xreadgroup

\* The consumer names of the EventConsumer instances of the group.
Consumers == {"c1", "c2"}

Ids == 1 .. MaxLog

\* Events publish_event appends to a document's stream.
SourceEvents == {"user_joined", "document_change"}

\* A group creation that starts the group afresh each time.
XGroupCreate_reset(g) ==
    [created |-> TRUE, last_delivered |-> 0, pending |-> {}]

\* XGROUP CREATE ... id='0-0' mkstream=True: an existing group is left as it
\* is (Redis answers BUSYGROUP, which connect swallows).
XGroupCreate(g) ==
    IF g.created THEN g
    ELSE [created |-> TRUE, last_delivered |-> 0, pending |-> {}]

\* The ids XREADGROUP ... '>' hands out: the entries after the group's
\* last delivered id, at most count of them.
NewIds(g, s, count) ==
    { i \in 1 .. Len(s[SourceStream]) :
        i > g.last_delivered /\ i <= g.last_delivered + count }

SetMax(S) == CHOOSE m \in S : \A x \in S : x <= m

\* The ids of S in increasing order.
RECURSIVE Ascending(_)
Ascending(S) ==
    IF S = {} THEN <<>>
    ELSE LET m == CHOOSE x \in S : \A y \in S : x <= y
         IN  <<m>> \o Ascending(S \ {m})

\* XREADGROUP: the handed-out entries enter the pending list under the
\* reading consumer and the last delivered id moves past them.
XReadGroup(g, c, ids) ==
    IF ids = {} THEN g
    ELSE [g EXCEPT !.last_delivered = SetMax(ids),
                   !.pending = @ \cup { <<i, c>> : i \in ids }]

\* XACK removes the id from the pending list, whoever holds it.
XAck(g, id) ==
    [g EXCEPT !.pending = { p \in @ : p[1] # id }]

IsPending(g, id) == \E p \in g.pending : p[1] = id

-----------------------------------------------------------------------------
(* EventConsumer                                                           *)

\* What awaiting self.handler(event) can do: return, raise an Exception,
\* or raise a BaseException that is no Exception (SystemExit, as the
\* handler of EventPublisher.test_events does).
HandlerOutcomes == {"ok", "Exception", "SystemExit"}

\* `except Exception` of _process_event.
CaughtByProcessEvent(exc) == exc = "Exception"

\* ShouldRetry with an off-by-one loop condition.
ShouldRetry_inclusive(retries) == retries <= max_retries

\* `while retries < self.max_retries`.
ShouldRetry(retries) == retries < max_retries

\* A backoff that grows by two seconds per attempt.
BackoffDelay_linear(retries) == 2 * retries

\* The seconds of asyncio.sleep(2 ** retries), retries already incremented.
BackoffDelay(retries) == 2 ^ retries

\* A consumer that acknowledges an exhausted entry first.
AfterRetries_ack_first == "dlq_ack"

\* The statement after the while loop of _process_event: the xadd to the
\* dead-letter stream.
AfterRetries == "dlq_add"

\* The except clause of _process_event: retries += 1, then the sleep.
Retry(consumer) ==
    [consumer EXCEPT !.pc = "backoff", !.retries = @ + 1,
                     !.delay = BackoffDelay(consumer.retries + 1)]

\* A consumer outside _process_event.
IdleConsumer(pc) ==
    [pc |-> pc, batch |-> <<>>, msg_id |-> 0, retries |-> 0, exc |-> "none",
     delay |-> 0]

\* The for loop of consume: _process_event of the next message of the
\* batch, or the next xreadgroup when the batch is done.
StartBatch(batch) ==
    IF batch = <<>> THEN IdleConsumer("fetch")
    ELSE [pc |-> "handle", batch |-> Tail(batch),
          msg_id |-> Head(batch), retries |-> 0, exc |-> "none",
          delay |-> 0]

Bump(h, field, id) == [h EXCEPT ![field][id] = @ + 1]

\* publish_event of the collaboration service: xadd of the JSON text of an
\* event to the document's stream.
Produce ==
    /\ Len(streams[SourceStream]) < MaxLog
    /\ \E e \in SourceEvents : streams' = XAdd(streams, SourceStream, e, 0)
    /\ UNCHANGED <<pub, group, cons, hist, sessionVars, otVars, endpointVars, serviceVars, clientVars>>

\* EventConsumer.connect: a failure of xgroup_create is swallowed.
ConsumerConnect(c) ==
    /\ cons[c].pc = "init"
    /\ \E ok \in BOOLEAN :
        group' = IF ok THEN XGroupCreate(group) ELSE group
    /\ cons' = [cons EXCEPT ![c] = IdleConsumer("fetch")]
    /\ UNCHANGED <<streams, pub, hist, sessionVars, otVars, endpointVars, serviceVars, clientVars>>

\* consume: xreadgroup hands out new entries.
Fetch(c) ==
    /\ cons[c].pc = "fetch"
    /\ group.created
    /\ LET ids == NewIds(group, streams, ReadCount)
       IN  /\ ids # {}
           /\ group' = XReadGroup(group, c, ids)
           /\ cons' = [cons EXCEPT ![c] = StartBatch(Ascending(ids))]
           /\ hist' = [hist EXCEPT !.delivered =
                        [i \in Ids |-> IF i \in ids THEN @[i] + 1 ELSE @[i]]]
    /\ UNCHANGED <<streams, pub, sessionVars, otVars, endpointVars, serviceVars, clientVars>>

\* consume: xreadgroup raises (no connection, or no such group); the
\* except of consume logs and sleeps.
FetchFails(c) ==
    /\ cons[c].pc = "fetch"
    /\ cons' = [cons EXCEPT ![c] = IdleConsumer("sleep")]
    /\ UNCHANGED <<streams, pub, group, hist, sessionVars, otVars, endpointVars, serviceVars, clientVars>>

\* consume: asyncio.sleep(2) ends, the loop reads again.
Sleep(c) ==
    /\ cons[c].pc = "sleep"
    /\ cons' = [cons EXCEPT ![c] = IdleConsumer("fetch")]
    /\ UNCHANGED <<streams, pub, group, hist, sessionVars, otVars, endpointVars, serviceVars, clientVars>>

\* _process_event: one await of the handler.  An exception the except
\* clause does not catch leaves _process_event and consume.
Handle(c) ==
    /\ cons[c].pc = "handle"
    /\ \E out \in HandlerOutcomes :
        LET id == cons[c].msg_id
            h1 == Bump(hist, "calls", id)
        IN  IF out = "ok"
            THEN /\ cons' = [cons EXCEPT ![c].pc = "ack"]
                 /\ hist' = [h1 EXCEPT !.oks[id] = 1]
            ELSE IF CaughtByProcessEvent(out)
            THEN /\ cons' = [cons EXCEPT ![c] = Retry(@)]
                 /\ hist' = [h1 EXCEPT !.raised = TRUE]
            ELSE /\ cons' = [cons EXCEPT ![c].pc = "exited", ![c].exc = out]
                 /\ hist' = [h1 EXCEPT !.raised = TRUE]
    /\ UNCHANGED <<streams, pub, group, sessionVars, otVars, endpointVars, serviceVars, clientVars>>

\* _process_event: xack after the handler returned.  A Redis error raised
\* here is inside the try and counts as a failed attempt.
Ack(c) ==
    /\ cons[c].pc = "ack"
    /\ \E ok \in BOOLEAN :
        IF ok
        THEN /\ group' = XAck(group, cons[c].msg_id)
             /\ hist' = IF IsPending(group, cons[c].msg_id)
                        THEN Bump(hist, "acks", cons[c].msg_id) ELSE hist
             /\ cons' = [cons EXCEPT ![c] = StartBatch(cons[c].batch)]
        ELSE /\ cons' = [cons EXCEPT ![c] = Retry(@)]
             /\ UNCHANGED <<group, hist>>
    /\ UNCHANGED <<streams, pub, sessionVars, otVars, endpointVars, serviceVars, clientVars>>

\* _process_event: asyncio.sleep(2 ** retries) ends and the while condition
\* is evaluated.
Backoff(c) ==
    /\ cons[c].pc = "backoff"
    /\ cons' = [cons EXCEPT ![c].pc =
                    IF ShouldRetry(cons[c].retries) THEN "handle"
                    ELSE AfterRetries,
                             ![c].delay = 0]
    /\ UNCHANGED <<streams, pub, group, hist, sessionVars, otVars, endpointVars, serviceVars, clientVars>>

\* _process_event: xadd to the dead-letter stream.  A Redis error escapes
\* to the except of consume, which drops the rest of the batch.
DeadLetter(c) ==
    /\ cons[c].pc = "dlq_add"
    /\ \E ok \in BOOLEAN :
        IF ok
        THEN /\ streams' = XAdd(streams, STREAMS.dead_letter,
                                streams[SourceStream][cons[c].msg_id].event,
                                cons[c].msg_id)
             /\ cons' = [cons EXCEPT ![c].pc = "dlq_ack"]
        ELSE /\ cons' = [cons EXCEPT ![c] = IdleConsumer("sleep")]
             /\ UNCHANGED streams
    /\ UNCHANGED <<pub, group, hist, sessionVars, otVars, endpointVars, serviceVars, clientVars>>

\* _process_event: xack after the dead-letter append.
DeadLetterAck(c) ==
    /\ cons[c].pc = "dlq_ack"
    /\ \E ok \in BOOLEAN :
        IF ok
        THEN /\ group' = XAck(group, cons[c].msg_id)
             /\ hist' = IF IsPending(group, cons[c].msg_id)
                        THEN Bump(hist, "acks", cons[c].msg_id) ELSE hist
             /\ cons' = [cons EXCEPT ![c] = StartBatch(cons[c].batch)]
        ELSE /\ cons' = [cons EXCEPT ![c] = IdleConsumer("sleep")]
             /\ UNCHANGED <<group, hist>>
    /\ UNCHANGED <<streams, pub, sessionVars, otVars, endpointVars, serviceVars, clientVars>>

\* The task that runs consume is cancelled: CancelledError is raised at the
\* await the task is in.  It is no Exception, so neither except clause
\* runs and consume is left at once.
Cancel(c) ==
    /\ cons[c].pc \in {"fetch", "sleep", "handle", "ack", "backoff",
                       "dlq_add", "dlq_ack"}
    /\ cons' = [cons EXCEPT ![c].pc = "exited", ![c].exc = "CancelledError"]
    /\ UNCHANGED <<streams, pub, group, hist, sessionVars, otVars, endpointVars, serviceVars, clientVars>>

-----------------------------------------------------------------------------
(* ConnectionManager                                                       *)

MaxBroadcasts == 2      \* broadcast calls in a run

DocumentIds == {"d1", "d2"}
WebSockets == {"w1", "w2", "w3", "w4"}

\* The document of the endpoint call a websocket belongs to: the endpoint
\* passes its own websocket and its path's document_id to connect.
DocOf(websocket) == IF websocket = "w4" THEN "d2" ELSE "d1"

\* The connections registered for a document (none when it is no key).
Registered(ac, document_id) ==
    IF document_id \in DOMAIN ac THEN ac[document_id] ELSE {}

\* connect, after websocket.accept() returned.
connect(ac, document_id, websocket) ==
    LET ac1 == IF document_id \notin DOMAIN ac
               THEN [d \in DOMAIN ac \cup {document_id} |->
                        IF d \in DOMAIN ac THEN ac[d] ELSE {}]
               ELSE ac
    IN  [ac1 EXCEPT ![document_id] = @ \cup {websocket}]

\* disconnect that drops the document's whole set.
disconnect_drop_document(ac, document_id, websocket) ==
    [ac |-> [d \in DOMAIN ac \ {document_id} |-> ac[d]], raised |-> FALSE]

\* disconnect without the `del` of an emptied set.
disconnect_keep_empty(ac, document_id, websocket) ==
    [ac |-> IF document_id \in DOMAIN ac
            THEN [ac EXCEPT ![document_id] = @ \ {websocket}]
            ELSE ac,
     raised |-> FALSE]

\* disconnect: set.discard raises nothing when the element is absent.
disconnect(ac, document_id, websocket) ==
    IF document_id \in DOMAIN ac
    THEN LET ac1 == [ac EXCEPT ![document_id] = @ \ {websocket}]
         IN  [ac |-> IF ac1[document_id] = {}
                     THEN [d \in DOMAIN ac1 \ {document_id} |-> ac1[d]]
                     ELSE ac1,
              raised |-> FALSE]
    ELSE [ac |-> ac, raised |-> FALSE]

\* broadcast: list(self.active_connections[document_id]), the connections
\* the for loop will send to.
BroadcastTargets(ac, document_id) ==
    IF document_id \in DOMAIN ac THEN ac[document_id] ELSE {}

ManagerCall(op, raised) == [op |-> op, raised |-> raised]

\* manager.connect: websocket.accept() may raise, and then nothing is
\* registered.
Connect(d, w) ==
    /\ d = DocOf(w)
    /\ \E accepted \in BOOLEAN :
        /\ active_connections' =
            IF accepted THEN connect(active_connections, d, w)
            ELSE active_connections
        /\ mgr' = ManagerCall("connect", ~accepted)
    /\ UNCHANGED <<bc, inbox, eventVars, otVars, endpointVars, serviceVars, clientVars>>

Disconnect(d, w) ==
    LET r == disconnect(active_connections, d, w)
    IN  /\ active_connections' = r.ac
        /\ mgr' = ManagerCall("disconnect", r.raised)
        /\ UNCHANGED <<bc, inbox, eventVars, otVars, endpointVars, serviceVars, clientVars>>

\* manager.broadcast is called: the loop's list is taken.  The message of
\* the n-th broadcast is n.
BroadcastStart(d) ==
    /\ bc.todo = {}
    /\ bc.n < MaxBroadcasts
    /\ bc' = [n |-> bc.n + 1, doc |-> d,
              todo |-> BroadcastTargets(active_connections, d)]
    /\ mgr' = ManagerCall("broadcast", FALSE)
    /\ UNCHANGED <<active_connections, inbox, eventVars, otVars, endpointVars, serviceVars, clientVars>>

\* A loop body whose send exception leaves the loop and the call.
send_raised_propagate(todo, w) == [todo |-> {}, raised |-> TRUE]

\* `except Exception: pass` around send_json: the exception of the send to
\* w is dropped and the for loop goes on with the connections left.
send_raised(todo, w) == [todo |-> todo \ {w}, raised |-> FALSE]

\* One iteration of the loop: await connection.send_json(message), which
\* returns or raises.
BroadcastSend(w) ==
    /\ w \in bc.todo
    /\ \E sent \in BOOLEAN :
        IF sent
        THEN /\ inbox' = [inbox EXCEPT ![w] = @ \cup {bc.n}]
             /\ bc' = [bc EXCEPT !.todo = @ \ {w}]
             /\ mgr' = mgr
        ELSE LET r == send_raised(bc.todo, w)
             IN  /\ inbox' = inbox
                 /\ bc' = [bc EXCEPT !.todo = r.todo]
                 /\ mgr' = IF r.raised THEN ManagerCall("broadcast", TRUE)
                            ELSE mgr
    /\ UNCHANGED <<active_connections, eventVars, otVars, endpointVars, serviceVars, clientVars>>

-----------------------------------------------------------------------------
(* Operation, apply_operation, transform (main.py 41-68)                   *)

MaxLen == 2             \* length of a document content
MaxPos == 3             \* largest position of an operation

Chars == {"f", "o"}
Texts == {<<>>, <<"o">>, <<"o", "f">>, <<"f", "o", "o">>}
OpTypes == {"insert", "delete"}

Min(a, b) == IF a <= b THEN a ELSE b
Max(a, b) == IF a >= b THEN a ELSE b

\* Strings are sequences of characters.
Contents == UNION { [1 .. n -> Chars] : n \in 0 .. MaxLen }

Operation(pos, text, op_type) ==
    [pos |-> pos, text |-> text, op_type |-> op_type]

Operations ==
    { Operation(pos, text, op_type) :
        pos \in 0 .. MaxPos, text \in Texts, op_type \in OpTypes }

\* The bound a Python slice puts in place of index i on a string of
\* length n: a negative index counts from the end, and both are clamped.
SliceIndex(i, n) == IF i < 0 THEN Max(n + i, 0) ELSE Min(i, n)

\* content[:i] and content[i:]
SliceTo(content, i) == SubSeq(content, 1, SliceIndex(i, Len(content)))
SliceFrom(content, i) ==
    SubSeq(content, SliceIndex(i, Len(content)) + 1, Len(content))

\* content[i:j]
Slice(content, i, j) ==
    SubSeq(content, SliceIndex(i, Len(content)) + 1,
           SliceIndex(j, Len(content)))

\* apply_operation with a delete that starts one character early.
apply_operation_delete_off_by_one(content, op) ==
    IF op.op_type = "insert"
    THEN SliceTo(content, op.pos) \o op.text \o SliceFrom(content, op.pos)
    ELSE IF op.op_type = "delete"
    THEN SliceTo(content, op.pos - 1)
            \o SliceFrom(content, op.pos + Len(op.text))
    ELSE content

\* apply_operation with a delete that ignores a range reaching past the end.
apply_operation_delete_strict(content, op) ==
    IF op.op_type = "insert"
    THEN SliceTo(content, op.pos) \o op.text \o SliceFrom(content, op.pos)
    ELSE IF op.op_type = "delete"
    THEN IF op.pos + Len(op.text) > Len(content)
         THEN content
         ELSE SliceTo(content, op.pos)
                \o SliceFrom(content, op.pos + Len(op.text))
    ELSE content

\* apply_operation with a delete that removes one character whatever the
\* length of op.text.
apply_operation_delete_one_char(content, op) ==
    IF op.op_type = "insert"
    THEN SliceTo(content, op.pos) \o op.text \o SliceFrom(content, op.pos)
    ELSE IF op.op_type = "delete"
    THEN SliceTo(content, op.pos) \o SliceFrom(content, op.pos + 1)
    ELSE content

\* apply_operation (lines 55-60)
apply_operation(content, op) ==
    IF op.op_type = "insert"
    THEN SliceTo(content, op.pos) \o op.text \o SliceFrom(content, op.pos)
    ELSE IF op.op_type = "delete"
    THEN SliceTo(content, op.pos)
            \o SliceFrom(content, op.pos + Len(op.text))
    ELSE content

\* transform that shifts for an insert strictly before op1 only.
transform_insert_strict(op1, op2) ==
    IF op2.op_type = "insert" /\ op2.pos < op1.pos
    THEN [op1 EXCEPT !.pos = @ + Len(op2.text)]
    ELSE IF op2.op_type = "delete" /\ op2.pos < op1.pos
    THEN [op1 EXCEPT !.pos = @ - Min(Len(op2.text), op1.pos - op2.pos)]
    ELSE op1

\* transform that shifts back by the whole length of a deleted text.
transform_delete_unclamped(op1, op2) ==
    IF op2.op_type = "insert" /\ op2.pos <= op1.pos
    THEN [op1 EXCEPT !.pos = @ + Len(op2.text)]
    ELSE IF op2.op_type = "delete" /\ op2.pos < op1.pos
    THEN [op1 EXCEPT !.pos = @ - Len(op2.text)]
    ELSE op1

\* transform that shifts for every insert, wherever it is.
transform_insert_anywhere(op1, op2) ==
    IF op2.op_type = "insert"
    THEN [op1 EXCEPT !.pos = @ + Len(op2.text)]
    ELSE IF op2.op_type = "delete" /\ op2.pos < op1.pos
    THEN [op1 EXCEPT !.pos = @ - Min(Len(op2.text), op1.pos - op2.pos)]
    ELSE op1

\* transform (lines 62-68): the value of op1 when it returns.  The
\* function assigns to op1.pos and returns op1 itself.
transform(op1, op2) ==
    IF op2.op_type = "insert" /\ op2.pos <= op1.pos
    THEN [op1 EXCEPT !.pos = @ + Len(op2.text)]
    ELSE IF op2.op_type = "delete" /\ op2.pos < op1.pos
    THEN [op1 EXCEPT !.pos = @ - Min(Len(op2.text), op1.pos - op2.pos)]
    ELSE op1

\* The inputs of a call: ot.a and ot.b are the operations as they were
\* received, ot.op1 is the object passed as op1, which transform assigns to.
OTInput(c, a, b) ==
    [c |-> c, a |-> a, b |-> b, op1 |-> a, call |-> "none", out |-> <<>>]

NoOT == OTInput(<<>>, Operation(0, <<>>, "insert"), Operation(0, <<>>, "insert"))

\* transform(a, b)
OTTransform ==
    /\ ot.call = "none"
    /\ LET r == transform(ot.op1, ot.b)
       IN  ot' = [ot EXCEPT !.call = "transform", !.op1 = r, !.out = r]
    /\ UNCHANGED <<eventVars, sessionVars, endpointVars, serviceVars, clientVars>>

\* apply_operation(c, a)
OTApply ==
    /\ ot.call = "none"
    /\ ot' = [ot EXCEPT !.call = "apply",
                        !.out = apply_operation(ot.c, ot.a)]
    /\ UNCHANGED <<eventVars, sessionVars, endpointVars, serviceVars, clientVars>>

\* An insert of a's text at a's position undone by the delete of the same
\* text there, and a delete of a's range undone by an insert of the slice
\* it removed.
OTRoundTrip ==
    /\ ot.call = "none"
    /\ LET p == ot.a.pos
           t == ot.a.text
           s == Slice(ot.c, p, p + Len(t))
       IN  ot' = [ot EXCEPT
                    !.call = "round_trip",
                    !.out = [insert_delete |->
                                apply_operation(
                                    apply_operation(ot.c, Operation(p, t, "insert")),
                                    Operation(p, t, "delete")),
                             removed |-> s,
                             delete_insert |->
                                apply_operation(
                                    apply_operation(ot.c, Operation(p, t, "delete")),
                                    Operation(p, s, "insert"))]]
    /\ UNCHANGED <<eventVars, sessionVars, endpointVars, serviceVars, clientVars>>

\* Two sites start from c.  One applies a, then b transformed against a;
\* the other applies b, then a transformed against b.
OTBothOrders ==
    /\ ot.call = "none"
    /\ ot' = [ot EXCEPT
                !.call = "both_orders",
                !.out = [a_then_b |->
                            apply_operation(apply_operation(ot.c, ot.a),
                                            transform(ot.b, ot.a)),
                         b_then_a |->
                            apply_operation(apply_operation(ot.c, ot.b),
                                            transform(ot.a, ot.b))]]
    /\ UNCHANGED <<eventVars, sessionVars, endpointVars, serviceVars, clientVars>>


-----------------------------------------------------------------------------
(* websocket_endpoint (main.py 111-147), publish_event (main.py 98-99)     *)

MaxMessages == 2        \* messages received, over all connections

\* The endpoint calls: w1 of user u1 and w2 of user u2, on document d1.
Endpoints == {"w1", "w2"}
UserIds == {"u1", "u2"}
UserOf(websocket) == IF websocket = "w2" THEN "u2" ELSE "u1"
Cursors == {"c1", "c2"}

\* What receive_json returns: a dict with or without the key its branch
\* reads ("operation" of document_change, "cursor" of cursor_position).
Message(type, operation, cursor) ==
    [type |-> type, operation |-> operation, cursor |-> cursor]

Messages ==
    { Message("document_change", o, "absent") : o \in {"present", "absent"} }
    \cup { Message("cursor_position", "absent", c) :
            c \in Cursors \cup {"absent"} }
    \cup { Message("document_saved", "absent", "absent"),
           Message("undo", "absent", "absent") }

\* An event as it is broadcast and published.  A client's message is
\* passed on as received; the model keeps its type and its sender.
Event(type, user_id, cursor) ==
    [type |-> type, user_id |-> user_id, cursor |-> cursor]

\* publish_event: xadd on doc_stream:{document_id}; it raises when xadd does.
publish_event(ds, document_id, event, xadd) ==
    IF xadd THEN [ds EXCEPT ![document_id] = Append(@, event)] ELSE ds

CursorOf(uc, document_id, user_id) ==
    IF document_id \in DOMAIN uc /\ user_id \in DOMAIN uc[document_id]
    THEN uc[document_id][user_id]
    ELSE "absent"

\* A cursor update that keeps an entry the user already has.
set_cursor_first_wins(uc, document_id, user_id, cursor) ==
    LET uc1 == IF document_id \in DOMAIN uc THEN uc
               ELSE [d \in DOMAIN uc \cup {document_id} |->
                        IF d \in DOMAIN uc THEN uc[d] ELSE <<>>]
    IN  [uc1 EXCEPT ![document_id] =
            [x \in DOMAIN @ \cup {user_id} |->
                IF x \in DOMAIN @ THEN @[x] ELSE cursor]]

\* user_cursors.setdefault(document_id, {})[user_id] = data["cursor"]
set_cursor(uc, document_id, user_id, cursor) ==
    LET uc1 == IF document_id \in DOMAIN uc THEN uc
               ELSE [d \in DOMAIN uc \cup {document_id} |->
                        IF d \in DOMAIN uc THEN uc[d] ELSE <<>>]
    IN  [uc1 EXCEPT ![document_id] =
            [x \in DOMAIN @ \cup {user_id} |->
                IF x = user_id THEN cursor ELSE @[x]]]

\* Where an endpoint call is: the await it is at, the event it is handling
\* and the connections manager.broadcast has still to send it to.
\*   new        called, awaiting websocket.accept() in manager.connect
\*   broadcast  awaiting a send_json of manager.broadcast
\*   publish    awaiting redis.xadd in publish_event
\*   receive    awaiting websocket.receive_json()
\*   closing    in `except Exception`, awaiting websocket.close()
\* and how it ended: refused (accept raised or was cancelled), closed (after
\* WebSocketDisconnect), errored (after `except Exception`), cancelled.
EndpointTask(pc, event, todo) == [pc |-> pc, event |-> event, todo |-> todo]

NoEvent == Event("none", "none", "absent")

At(pc) == EndpointTask(pc, NoEvent, {})

\* The positions of an endpoint call that has returned or was left by an
\* exception, after manager.connect had registered the websocket.
Ended == {"closed", "errored", "cancelled"}

\* The awaits of an endpoint call.
Awaits == {"new", "broadcast", "publish", "receive", "closing"}

\* manager.broadcast is called (lines 88-89): it takes
\* list(active_connections[document_id]) and awaits its first send_json;
\* with nothing to send it returns at once to what follows it (`next`).
StartBroadcast(ac, document_id, event, next) ==
    LET connections == BroadcastTargets(ac, document_id)
    IN  IF connections = {} THEN next
        ELSE EndpointTask("broadcast", event, connections)

\* What follows manager.broadcast(event) in the endpoint: publish_event
\* for the join and the leave event, receive_json for the others.
AfterBroadcast(event) ==
    IF event.type \in {"user_joined", "user_left"}
    THEN EndpointTask("publish", event, {})
    ELSE At("receive")

\* Lines 113-117: websocket.accept() returns or raises.  An exception
\* leaves the endpoint outside its try with nothing registered; otherwise
\* the websocket is registered and the broadcast of the join event begins.
EpAccept(w) ==
    /\ task[w].pc = "new"
    /\ LET d == DocOf(w)
           join_event == Event("user_joined", UserOf(w), "absent")
       IN  \E accepted \in BOOLEAN :
            IF ~accepted
            THEN /\ task' = [task EXCEPT ![w] = At("refused")]
                 /\ UNCHANGED active_connections
            ELSE LET ac1 == connect(active_connections, d, w)
                 IN  /\ active_connections' = ac1
                     /\ task' = [task EXCEPT ![w] =
                                    StartBroadcast(ac1, d, join_event,
                                                   AfterBroadcast(join_event))]
    /\ UNCHANGED <<doc_stream, user_cursors, received, inbox, bc, mgr,
                   eventVars, otVars, serviceVars, clientVars>>

\* Lines 89-93: one send_json of the broadcast returns or raises; the
\* exception is swallowed, so the endpoint goes on the same way after
\* either.  Here inbox[target] keeps the events send_json was called with
\* for target; the send that raises is a case of BroadcastSend above.
EpSend(w, target) ==
    /\ task[w].pc = "broadcast"
    /\ target \in task[w].todo
    /\ LET todo == task[w].todo \ {target}
       IN  task' = [task EXCEPT ![w] =
                        IF todo = {} THEN AfterBroadcast(task[w].event)
                        ELSE [@ EXCEPT !.todo = todo]]
    /\ inbox' = [inbox EXCEPT ![target] = @ \cup {task[w].event}]
    /\ UNCHANGED <<active_connections, doc_stream, user_cursors, received,
                   bc, mgr, eventVars, otVars, serviceVars, clientVars>>

\* publish_event (lines 98-99): redis.xadd returns or raises.
\*   join event (118): then the receive loop; an exception goes to
\*     `except Exception`.
\*   document_change, document_saved (127-128, 135-136): then
\*     manager.broadcast; an exception goes to `except Exception`.
\*   leave event (144): the endpoint returns; an exception raised inside
\*     the except clause leaves the endpoint.
EpPublish(w) ==
    /\ task[w].pc = "publish"
    /\ LET d == DocOf(w)
           event == task[w].event
       IN  \E xadd \in BOOLEAN :
            /\ doc_stream' = publish_event(doc_stream, d, event, xadd)
            /\ task' = [task EXCEPT ![w] =
                 IF event.type = "user_left" THEN At("closed")
                 ELSE IF ~xadd THEN At("closing")
                 ELSE IF event.type = "user_joined" THEN At("receive")
                 ELSE StartBroadcast(active_connections, d, event,
                                     AfterBroadcast(event))]
    /\ UNCHANGED <<active_connections, user_cursors, received, inbox, bc,
                   mgr, eventVars, otVars, serviceVars, clientVars>>

\* Lines 121-139: receive_json returns a message.  A message without the
\* key its branch reads raises KeyError, which goes to `except Exception`.
EpReceive(w, data) ==
    /\ task[w].pc = "receive"
    /\ received < MaxMessages
    /\ received' = received + 1
    /\ LET d == DocOf(w)
           u == UserOf(w)
           event == Event(data.type, u, data.cursor)
       IN  CASE data.type = "document_change" ->
                  /\ task' = [task EXCEPT ![w] =
                        IF data.operation = "absent" THEN At("closing")
                        ELSE EndpointTask("publish", event, {})]
                  /\ UNCHANGED user_cursors
             [] data.type = "document_saved" ->
                  /\ task' = [task EXCEPT ![w] =
                                EndpointTask("publish", event, {})]
                  /\ UNCHANGED user_cursors
             [] data.type = "cursor_position" ->
                  IF data.cursor = "absent"
                  THEN /\ task' = [task EXCEPT ![w] = At("closing")]
                       /\ UNCHANGED user_cursors
                  ELSE /\ user_cursors' =
                            set_cursor(user_cursors, d, u, data.cursor)
                       /\ task' = [task EXCEPT ![w] =
                            StartBroadcast(active_connections, d, event,
                                           AfterBroadcast(event))]
             [] OTHER ->
                  UNCHANGED <<task, user_cursors>>
    /\ UNCHANGED <<active_connections, doc_stream, inbox, bc, mgr,
                   eventVars, otVars, serviceVars, clientVars>>

\* Lines 140-143: receive_json raises WebSocketDisconnect.  The websocket
\* is removed and the broadcast of the leave event to the connections
\* left begins.
EpDisconnect(w) ==
    /\ task[w].pc = "receive"
    /\ LET d == DocOf(w)
           leave_event == Event("user_left", UserOf(w), "absent")
           r == disconnect(active_connections, d, w)
       IN  /\ active_connections' = r.ac
           /\ task' = [task EXCEPT ![w] =
                        StartBroadcast(r.ac, d, leave_event,
                                       AfterBroadcast(leave_event))]
    /\ UNCHANGED <<doc_stream, user_cursors, received, inbox, bc, mgr,
                   eventVars, otVars, serviceVars, clientVars>>

\* Lines 121 and 145-146: receive_json raises an exception other than
\* WebSocketDisconnect (a frame that is no JSON).
EpReceiveError(w) ==
    /\ task[w].pc = "receive"
    /\ task' = [task EXCEPT ![w] = At("closing")]
    /\ UNCHANGED <<active_connections, doc_stream, user_cursors, received,
                   inbox, bc, mgr, eventVars, otVars, serviceVars,
                   clientVars>>

\* Line 147: websocket.close() returns or raises; the endpoint has ended
\* and manager.disconnect was not called.
EpClose(w) ==
    /\ task[w].pc = "closing"
    /\ task' = [task EXCEPT ![w] = At("errored")]
    /\ UNCHANGED <<active_connections, doc_stream, user_cursors, received,
                   inbox, bc, mgr, eventVars, otVars, serviceVars,
                   clientVars>>

\* The task of an endpoint call is cancelled at one of its awaits:
\* CancelledError is no Exception, no except clause runs.  Cancelled in
\* accept, the endpoint has registered nothing.
EpCancel(w) ==
    /\ task[w].pc \in Awaits
    /\ task' = [task EXCEPT ![w] =
                    IF task[w].pc = "new" THEN At("refused")
                    ELSE At("cancelled")]
    /\ UNCHANGED <<active_connections, doc_stream, user_cursors, received,
                   inbox, bc, mgr, eventVars, otVars, serviceVars,
                   clientVars>>

-----------------------------------------------------------------------------
(* User service: AccountLockoutManager (security.py 33-55), login          *)
(* (main.py 199-219), RateLimitMiddleware (main.py 268-287)                *)

max_attempts == 5       \* AccountLockoutManager.__init__ default
max_requests == 100     \* RateLimitMiddleware.__init__ default

MaxCount == 102         \* requests of one client counted in one window

Emails == {"e1", "e2"}
\* The emails with a user row; e2 has none.
RegisteredEmails == {"e1"}
Clients == {"ip1", "ip2"}

\* A Redis counter key is absent (0, what a missing key counts as for INCR)
\* or holds its count.

\* is_locked: `if attempts and int(attempts) >= self.max_attempts`.
is_locked(attempts) == attempts # 0 /\ attempts >= max_attempts

\* record_failed_attempt, line 41: INCR.
record_failed_attempt(lk, email) == [lk EXCEPT ![email] = @ + 1]

\* Lines 205-206: result.scalar() of a select on the users table is the
\* first column of the first row, the integer id of the user (1 for e1),
\* and None, here 0, when there is no row.
scalar(email) == IF email \in RegisteredEmails THEN 1 ELSE 0

LoginResult(email, password_ok, status, tokens) ==
    [email |-> email, password_ok |-> password_ok, status |-> status,
     tokens |-> tokens]

\* The login calls in flight at once.
LoginTasks == {"l1", "l2"}

\* Where a login call is, and what it was called with.
LoginTask(pc, email, password_ok) ==
    [pc |-> pc, email |-> email, password_ok |-> password_ok]

IdleLogin == LoginTask("idle", "none", FALSE)

\* login.failed counts, up to max_attempts, the logins of an email that
\* were answered without tokens since its lockout key was last absent;
\* login.ttl tells whether lockout:{email} has a time to live.
NoLogin ==
    [last |-> LoginResult("none", FALSE, 0, FALSE),
     failed |-> [e \in Emails |-> 0],
     ttl |-> [e \in Emails |-> FALSE],
     task |-> [t \in LoginTasks |-> IdleLogin]]

\* A login call returns or raises: its answer, and one more failed login
\* of the email when it carries no tokens.
Answer(lg, t, status) ==
    LET call == lg.task[t]
    IN  [lg EXCEPT
            !.last = LoginResult(call.email, call.password_ok, status, FALSE),
            !.failed[call.email] = IF @ < max_attempts THEN @ + 1 ELSE @,
            !.task[t] = IdleLogin]

\* Lines 201-204: POST /auth/login awaits is_locked (GET); a locked email
\* is answered 403, otherwise the call awaits db.execute.
LoginStart(t, email, password_ok) ==
    /\ login.task[t].pc = "idle"
    /\ login' = IF is_locked(lockout[email])
                THEN Answer([login EXCEPT
                                !.task[t] =
                                    LoginTask("idle", email, password_ok)],
                            t, 403)
                ELSE [login EXCEPT
                        !.task[t] = LoginTask("execute", email, password_ok)]
    /\ UNCHANGED <<lockout, rl, rl_last, rl_task, gw, eventVars, sessionVars, otVars,
                   endpointVars, clientVars>>

\* Lines 205-207: db.execute returns.  With no row the call goes on to
\* record the failed attempt.  With a row, `user` is the integer id and
\* `user.hashed_password` raises AttributeError, which the handler of
\* line 155 answers with 500: lines 214-219 (reset_attempts, the tokens)
\* are never reached.
LoginExecute(t) ==
    /\ login.task[t].pc = "execute"
    /\ login' = IF scalar(login.task[t].email) = 0
                THEN [login EXCEPT !.task[t].pc = "record"]
                ELSE Answer(login, t, 500)
    /\ UNCHANGED <<lockout, rl, rl_last, rl_task, gw, eventVars, sessionVars, otVars,
                   endpointVars, clientVars>>

\* Lines 208-213 and record_failed_attempt: INCR returns; the first
\* attempt goes on to EXPIRE, another is answered 403 or 401.
LoginRecord(t) ==
    /\ login.task[t].pc = "record"
    /\ LET email == login.task[t].email
           lk1 == record_failed_attempt(lockout, email)
       IN  /\ lockout' = lk1
           /\ login' = IF lk1[email] = 1
                       THEN [login EXCEPT !.task[t].pc = "expire"]
                       ELSE Answer(login, t,
                                   IF lk1[email] >= max_attempts
                                   THEN 403 ELSE 401)
    /\ UNCHANGED <<rl, rl_last, rl_task, gw, eventVars, sessionVars, otVars,
                   endpointVars, clientVars>>

\* record_failed_attempt, lines 42-44: EXPIRE returns, attempts is 1.
LoginSetExpire(t) ==
    /\ login.task[t].pc = "expire"
    /\ LET email == login.task[t].email
           answered == Answer(login, t,
                              IF 1 >= max_attempts THEN 403 ELSE 401)
       IN  login' = [answered EXCEPT
                        !.ttl[email] = lockout[email] > 0]
    /\ UNCHANGED <<lockout, rl, rl_last, rl_task, gw, eventVars, sessionVars, otVars,
                   endpointVars, clientVars>>

\* The time to live of lockout:{email} (lockout_seconds from the first
\* failed attempt) runs out: the lockout window ends.
LockoutExpire(email) ==
    /\ lockout[email] > 0
    /\ login.ttl[email]
    /\ lockout' = [lockout EXCEPT ![email] = 0]
    /\ login' = [login EXCEPT !.failed[email] = 0, !.ttl[email] = FALSE]
    /\ UNCHANGED <<rl, rl_last, rl_task, gw, eventVars, sessionVars, otVars,
                   endpointVars, clientVars>>

\* reset_attempts (security.py 53-55): DEL of lockout:{email}, the key
\* and its time to live.  login calls it at line 214 only, which no login
\* reaches (see LoginExecute); it is a call of another user of the class.
ResetAttempts(email) ==
    /\ lockout' = [lockout EXCEPT ![email] = 0]
    /\ login' = [login EXCEPT !.failed[email] = 0, !.ttl[email] = FALSE]
    /\ UNCHANGED <<rl, rl_last, rl_task, gw, eventVars, sessionVars, otVars,
                   endpointVars, clientVars>>

\* A limiter that answers 429 from the max_requests-th request on.
over_limit_inclusive(count) == count >= max_requests

\* `if count > self.max_requests`
over_limit(count) == count > max_requests

RateLimitResult(client, count, status, reached) ==
    [client |-> client, count |-> count, status |-> status,
     reached |-> reached]

\* The requests in the middleware at once.
RateLimitTasks == {"q1", "q2"}

\* Where a request is in dispatch, its client and the count INCR answered.
RateLimitTask(pc, client, count) ==
    [pc |-> pc, client |-> client, count |-> count]

IdleRequest == RateLimitTask("idle", "none", 0)

NoRateLimit ==
    [task |-> [t \in RateLimitTasks |-> IdleRequest],
     ttl |-> [c \in Clients |-> FALSE]]

\* Lines 280-285: 429 when count > max_requests, otherwise the request
\* is handed to call_next (the endpoint, which answers with a status of
\* its own, here 200).
limit_or_call_next(client, count) ==
    IF over_limit(count)
    THEN RateLimitResult(client, count, 429, FALSE)
    ELSE RateLimitResult(client, count, 200, TRUE)

\* Lines 275-278: `await redis.incr(key)` returns.  The first request of
\* a key goes on to await redis.expire; another is answered 429 or handed
\* to call_next at once.
RateLimitIncr(t, client) ==
    /\ rl_task.task[t].pc = "idle"
    /\ rl[client] < MaxCount
    /\ LET count == rl[client] + 1
       IN  /\ rl' = [rl EXCEPT ![client] = count]
           /\ IF count = 1
              THEN /\ rl_task' = [rl_task EXCEPT !.task[t] =
                            RateLimitTask("expire", client, count)]
                   /\ UNCHANGED rl_last
              ELSE /\ rl_last' = limit_or_call_next(client, count)
                   /\ UNCHANGED rl_task
    /\ UNCHANGED <<lockout, login, gw, eventVars, sessionVars, otVars,
                   endpointVars, clientVars>>

\* Line 279: `await redis.expire(key, window_seconds)` returns: the key
\* has a time to live, and the request is answered 429 or handed to
\* call_next with the count its INCR returned.
RateLimitSetExpire(t) ==
    /\ rl_task.task[t].pc = "expire"
    /\ LET client == rl_task.task[t].client
       IN  /\ rl_task' = [rl_task EXCEPT
                            !.task[t] = IdleRequest,
                            !.ttl[client] = rl[client] > 0]
           /\ rl_last' = limit_or_call_next(client, rl_task.task[t].count)
    /\ UNCHANGED <<rl, lockout, login, gw, eventVars, sessionVars, otVars,
                   endpointVars, clientVars>>

\* The time to live of rl:{client_ip} (window_seconds from the EXPIRE of
\* the first request) runs out: the window ends.
RateLimitExpire(client) ==
    /\ rl[client] > 0
    /\ rl_task.ttl[client]
    /\ rl' = [rl EXCEPT ![client] = 0]
    /\ rl_task' = [rl_task EXCEPT !.ttl[client] = FALSE]
    /\ UNCHANGED <<rl_last, lockout, login, gw, eventVars, sessionVars,
                   otVars, endpointVars, clientVars>>

-----------------------------------------------------------------------------
(* API gateway: RATE_LIMITS, RateLimitMiddleware (api_gateway.py 45-49,    *)
(* 95-121)                                                                 *)

MaxGatewayRequests == 101   \* requests counted under one key in a window

RATE_LIMITS ==
    [auth |-> [requests |-> 100, window |-> 3600],
     documents |-> [requests |-> 1000, window |-> 3600],
     default |-> [requests |-> 500, window |-> 3600]]

\* request.url.path.split('/') of the paths requested.
HealthPath == <<"", "api", "v1", "health">>
DocumentsPath == <<"", "api", "v1", "documents">>
GatewayPaths == {HealthPath, DocumentsPath}

\* request.state.user_id as RateLimitMiddleware finds it.  AuthMiddleware
\* runs first: it sets none for the health path, and lets no request to
\* another path through without one.
GatewayUsers == {"anonymous", "u1"}
GatewayRequests ==
    { <<u, path>> \in GatewayUsers \X GatewayPaths :
        path = HealthPath <=> u = "anonymous" }

\* `path.split('/')[2] if len(path.split('/')) > 2 else 'default'`
\* (index 2 of a Python list is element 3 of a sequence).
endpoint_of(parts) == IF Len(parts) > 2 THEN parts[3] ELSE "default"

\* RATE_LIMITS.get(endpoint, RATE_LIMITS["default"])
limit_config(endpoint) ==
    IF endpoint \in DOMAIN RATE_LIMITS THEN RATE_LIMITS[endpoint]
    ELSE RATE_LIMITS.default

\* The keys rate_limit:{user_id}:{endpoint} of the requests.
GatewayKeys ==
    { <<r[1], endpoint_of(r[2])>> : r \in GatewayRequests }

\* `if current and int(current) >= limit_config["requests"]`; current is
\* 0 for a key that does not exist.
gateway_limited(current, config) ==
    current # 0 /\ current >= config.requests

\* The requests in the middleware at once.
GatewayCalls == {"g1", "g2"}

\* Where a request is in dispatch, and its user and path.
GatewayCall(pc, user_id, parts) ==
    [pc |-> pc, user_id |-> user_id, parts |-> parts]

IdleCall == GatewayCall("idle", "none", <<>>)

\* gw.health and gw.health_limited count the requests to the health path
\* answered since the key's window began, and the 429 answers among them;
\* gw.status is the last answer.
NoGateway ==
    [keys |-> [k \in GatewayKeys |-> 0],
     health |-> 0, health_limited |-> 0, status |-> 0,
     task |-> [t \in GatewayCalls |-> IdleCall]]

\* A request is answered with status.
GatewayAnswered(g, t, status) ==
    LET is_health == g.task[t].parts = HealthPath
    IN  [g EXCEPT
            !.health = IF is_health THEN @ + 1 ELSE @,
            !.health_limited =
                IF is_health /\ status = 429 THEN @ + 1 ELSE @,
            !.status = status,
            !.task[t] = IdleCall]

\* Lines 97-111: `await redis.get(key)` returns and the value read is
\* tested: 429, or the request goes on to the pipeline.
GatewayGet(t, user_id, parts) ==
    /\ gw.task[t].pc = "idle"
    /\ gw.keys[<<user_id, endpoint_of(parts)>>] < MaxGatewayRequests
    /\ LET endpoint == endpoint_of(parts)
           config == limit_config(endpoint)
           key == <<user_id, endpoint>>
           called == [gw EXCEPT
                        !.task[t] = GatewayCall("execute", user_id, parts)]
       IN  gw' = IF gateway_limited(gw.keys[key], config)
                 THEN GatewayAnswered(called, t, 429)
                 ELSE called
    /\ UNCHANGED <<lockout, login, rl, rl_last, rl_task, eventVars,
                   sessionVars, otVars, endpointVars, clientVars>>

\* Lines 113-119: `await pipe.execute()` returns, INCR and EXPIRE done,
\* and the request is handed to call_next.
GatewayExecute(t) ==
    /\ gw.task[t].pc = "execute"
    /\ LET key == <<gw.task[t].user_id, endpoint_of(gw.task[t].parts)>>
       IN  gw' = [gw EXCEPT !.keys[key] = @ + 1,
                            !.task[t].pc = "call_next"]
    /\ UNCHANGED <<lockout, login, rl, rl_last, rl_task, eventVars,
                   sessionVars, otVars, endpointVars, clientVars>>

\* Lines 119-121: `await call_next(request)` returns the response of the
\* service (200 here), which dispatch returns.
GatewayCallNext(t) ==
    /\ gw.task[t].pc = "call_next"
    /\ gw' = GatewayAnswered(gw, t, 200)
    /\ UNCHANGED <<lockout, login, rl, rl_last, rl_task, eventVars,
                   sessionVars, otVars, endpointVars, clientVars>>

\* The time to live of a key (config window from its last INCR) runs out.
GatewayExpire(key) ==
    /\ gw.keys[key] > 0
    /\ gw' = [gw EXCEPT
                !.keys[key] = 0,
                !.health = IF key = <<"anonymous", endpoint_of(HealthPath)>>
                           THEN 0 ELSE @,
                !.health_limited =
                    IF key = <<"anonymous", endpoint_of(HealthPath)>>
                    THEN 0 ELSE @]
    /\ UNCHANGED <<lockout, login, rl, rl_last, rl_task, eventVars,
                   sessionVars, otVars, endpointVars, clientVars>>

-----------------------------------------------------------------------------
(* websocket_endpoint, the receive loop (main.py 120-136) one await at a   *)
(* time: receive_json, publish_event, then each send_json of               *)
(* manager.broadcast, for two connections of one document                  *)

MaxArrivals == 3        \* messages arriving, over both connections

\* Two endpoint calls on document d1, both past their join.
LoopEndpoints == {"w1", "w2"}

\* The operation of the document_change messages.
LiveOperations == { Operation(0, <<"o">>, "insert") }

\* A message without the key "operation".
NoOperation == Operation(0, <<>>, "none")

\* A message as receive_json returns it on a connection: seq is its place
\* in the arrival order of that connection.
Data(type, websocket, seq, operation) ==
    [type |-> type, websocket |-> websocket, seq |-> seq,
     operation |-> operation]

NoData == Data("none", "none", 0, NoOperation)

LoopMessages(w, seq) ==
    { Data("document_change", w, seq, o) : o \in LiveOperations }
    \cup { Data("document_saved", w, seq, NoOperation) }

\* An append that puts the entry first.
xadd_front(stream, entry) == <<entry>> \o stream

\* redis.xadd: the entry gets the next id of the stream.
xadd(stream, entry) == Append(stream, entry)

\* connection.send_json: the message follows those sent before on the
\* same websocket.
send_json(sent, message) == Append(sent, message)

\* Where an endpoint call is: its position, the message it handles, and
\* the connections manager.broadcast has still to send to.
LoopTask(pc, n, data, todo) ==
    [pc |-> pc, n |-> n, data |-> data, todo |-> todo]

NoLoop ==
    [task |-> [w \in LoopEndpoints |-> LoopTask("receive", 0, NoData, {})],
     arrived |-> 0,
     stream |-> <<>>,
     sent |-> [w \in LoopEndpoints |-> <<>>]]

\* Line 121: receive_json returns the next message of the connection.
LoopReceive(w, data) ==
    /\ conn.task[w].pc = "receive"
    /\ conn.arrived < MaxArrivals
    /\ data \in LoopMessages(w, conn.task[w].n + 1)
    /\ conn' = [conn EXCEPT
                  !.arrived = @ + 1,
                  !.task[w] = LoopTask("publish", data.seq, data, {})]
    /\ UNCHANGED <<breaker, gwc, eventVars, sessionVars, otVars,
                   endpointVars, serviceVars>>

\* Lines 127 and 135: publish_event appends the message as received and
\* manager.broadcast takes list(active_connections[document_id]); an
\* exception of xadd leaves the loop (lines 145-147).
LoopPublish(w) ==
    /\ conn.task[w].pc = "publish"
    /\ \E ok \in BOOLEAN :
        conn' = IF ok
                THEN [conn EXCEPT
                        !.stream = xadd(@, conn.task[w].data),
                        !.task[w].pc = "broadcast",
                        !.task[w].todo = LoopEndpoints]
                ELSE [conn EXCEPT
                        !.task[w] = LoopTask("errored", @.n, NoData, {})]
    /\ UNCHANGED <<breaker, gwc, eventVars, sessionVars, otVars,
                   endpointVars, serviceVars>>

\* Lines 89-93: one send_json of the broadcast; an exception of it is
\* swallowed.  A connection whose endpoint closed it (line 147) is still
\* registered and every send to it raises.  After the last send the loop
\* waits for the next message.
LoopSend(w, target) ==
    /\ conn.task[w].pc = "broadcast"
    /\ target \in conn.task[w].todo
    /\ LET todo == conn.task[w].todo \ {target}
           after == IF todo = {}
                    THEN LoopTask("receive", conn.task[w].n, NoData, {})
                    ELSE [conn.task[w] EXCEPT !.todo = todo]
           outcomes == IF conn.task[target].pc = "errored"
                       THEN {FALSE} ELSE BOOLEAN
       IN  \E ok \in outcomes :
            conn' = [conn EXCEPT
                        !.task[w] = after,
                        !.sent[target] =
                            IF ok THEN send_json(@, conn.task[w].data)
                            ELSE @]
    /\ UNCHANGED <<breaker, gwc, eventVars, sessionVars, otVars,
                   endpointVars, serviceVars>>

-----------------------------------------------------------------------------
(* CircuitBreaker (service_client.py 16-40)                                *)

failure_threshold == 5  \* CircuitBreaker.__init__ default
recovery_timeout == 30  \* CircuitBreaker.__init__ default, seconds

MaxFailures == 7        \* failure_count of one breaker
MaxTime == 40           \* seconds on the clock

\* last_failure_time before the first failure (None).
NoTime == -1

\* The recovery test with the timeout included.
recovered_inclusive(now, last_failure_time) ==
    (now - last_failure_time) >= recovery_timeout

\* Line 26: (time.time() - self.last_failure_time) > self.recovery_timeout
recovered(now, last_failure_time) ==
    (now - last_failure_time) > recovery_timeout

\* Line 39: self.failure_count >= self.failure_threshold
opens(failure_count) == failure_count >= failure_threshold

\* The fields of a CircuitBreaker.
CircuitBreaker(state, failure_count, last_failure_time) ==
    [state |-> state, failure_count |-> failure_count,
     last_failure_time |-> last_failure_time]

\* allow_request (lines 24-30): the breaker after the call and what the
\* call returned.  With no last_failure_time the subtraction raises.
allow_request(cb, now) ==
    IF cb.state = "OPEN"
    THEN IF cb.last_failure_time = NoTime
         THEN [cb |-> cb, returned |-> "TypeError"]
         ELSE IF recovered(now, cb.last_failure_time)
         THEN [cb |-> [cb EXCEPT !.state = "HALF_OPEN"], returned |-> "True"]
         ELSE [cb |-> cb, returned |-> "False"]
    ELSE [cb |-> cb, returned |-> "True"]

\* record_success (lines 32-34)
record_success(cb) ==
    [cb EXCEPT !.failure_count = 0, !.state = "CLOSED"]

\* record_failure (lines 36-40)
record_failure(cb, now) ==
    LET count == cb.failure_count + 1
    IN  CircuitBreaker(IF opens(count) THEN "OPEN" ELSE cb.state,
                       count, now)

\* A new breaker, the clock, and the last call on the breaker.
NoBreaker ==
    [cb |-> CircuitBreaker("CLOSED", 0, NoTime), now |-> 0,
     call |-> "none", returned |-> "none"]

AllowRequest ==
    /\ LET r == allow_request(breaker.cb, breaker.now)
       IN  breaker' = [breaker EXCEPT !.cb = r.cb,
                                      !.call = "allow_request",
                                      !.returned = r.returned]
    /\ UNCHANGED <<conn, gwc, eventVars, sessionVars, otVars, endpointVars,
                   serviceVars>>

RecordSuccess ==
    /\ breaker' = [breaker EXCEPT !.cb = record_success(@),
                                  !.call = "record_success",
                                  !.returned = "none"]
    /\ UNCHANGED <<conn, gwc, eventVars, sessionVars, otVars, endpointVars,
                   serviceVars>>

RecordFailure ==
    /\ breaker.cb.failure_count < MaxFailures
    /\ breaker' = [breaker EXCEPT !.cb = record_failure(@, breaker.now),
                                  !.call = "record_failure",
                                  !.returned = "none"]
    /\ UNCHANGED <<conn, gwc, eventVars, sessionVars, otVars, endpointVars,
                   serviceVars>>

\* A second passes on the clock time.time() reads.
Tick ==
    /\ breaker.now < MaxTime
    /\ breaker' = [breaker EXCEPT !.now = @ + 1]
    /\ UNCHANGED <<conn, gwc, eventVars, sessionVars, otVars, endpointVars,
                   serviceVars>>

-----------------------------------------------------------------------------
(* API gateway RateLimitMiddleware.dispatch (api_gateway.py 95-121), one   *)
(* await at a time, for concurrent requests of one user to the paths of    *)
(* one endpoint class                                                      *)

\* The requests in flight at once.
GatewayTasks == {"r1", "r2"}

\* The key of user u1 for /api/v1/documents.
ConcurrentKey == <<"u1", endpoint_of(DocumentsPath)>>

\* The counter of the key (0 when absent), the requests passed on to
\* call_next since the key was last absent, where each request is, and
\* the last answer of the middleware itself.
NoConcurrent ==
    [count |-> 0, passed |-> 0, pc |-> [r \in GatewayTasks |-> "idle"],
     status |-> 0]

\* Lines 105-111: `await redis.get(key)`, then the test of the value read.
GwcGet(r) ==
    /\ gwc.pc[r] = "idle"
    /\ gwc' = IF gateway_limited(gwc.count, limit_config(ConcurrentKey[2]))
              THEN [gwc EXCEPT !.status = 429]
              ELSE [gwc EXCEPT !.pc[r] = "admitted"]
    /\ UNCHANGED <<conn, breaker, eventVars, sessionVars, otVars,
                   endpointVars, serviceVars>>

\* Lines 113-119: the pipeline of incr and expire is executed and the
\* request handed to call_next.
GwcIncr(r) ==
    /\ gwc.pc[r] = "admitted"
    /\ gwc' = [gwc EXCEPT !.count = @ + 1, !.passed = @ + 1,
                          !.pc[r] = "idle", !.status = 200]
    /\ UNCHANGED <<conn, breaker, eventVars, sessionVars, otVars,
                   endpointVars, serviceVars>>

\* The key expires window seconds after the last request counted.
GwcExpire ==
    /\ gwc.count > 0
    /\ gwc' = [gwc EXCEPT !.count = 0, !.passed = 0]
    /\ UNCHANGED <<conn, breaker, eventVars, sessionVars, otVars,
                   endpointVars, serviceVars>>

-----------------------------------------------------------------------------
(* Specifications                                                          *)

NoPublish ==
    [event_type |-> <<>>, data |-> [f \in FieldNames |-> "absent"],
     xadd1 |-> FALSE, xadd2 |-> FALSE,
     outcome |-> "none", stream |-> NoStream, errors |-> {},
     appended |-> {}]

InitEvents ==
    /\ streams = [n \in StreamNames |-> <<>>]
    /\ pub = NoPublish
    /\ group = [created |-> FALSE, last_delivered |-> 0, pending |-> {}]
    /\ cons = [c \in Consumers |-> IdleConsumer("init")]
    /\ hist = [calls |-> [i \in Ids |-> 0], oks |-> [i \in Ids |-> 0],
               acks |-> [i \in Ids |-> 0], delivered |-> [i \in Ids |-> 0],
               raised |-> FALSE]

InitSessions ==
    /\ active_connections = [d \in {} |-> {}]
    /\ bc = [n |-> 0, doc |-> "none", todo |-> {}]
    /\ inbox = [w \in WebSockets |-> {}]
    /\ mgr = ManagerCall("none", FALSE)

InitEndpoint ==
    /\ task = [w \in Endpoints |-> At("new")]
    /\ doc_stream = [d \in DocumentIds |-> <<>>]
    /\ user_cursors = <<>>
    /\ received = 0

InitServices ==
    /\ lockout = [e \in Emails |-> 0]
    /\ login = NoLogin
    /\ rl = [c \in Clients |-> 0]
    /\ rl_last = RateLimitResult("none", 0, 0, FALSE)
    /\ rl_task = NoRateLimit
    /\ gw = NoGateway

InitClients ==
    /\ conn = NoLoop
    /\ breaker = NoBreaker
    /\ gwc = NoConcurrent

Init ==
    /\ InitEvents
    /\ InitSessions
    /\ InitEndpoint
    /\ InitServices
    /\ InitClients
    /\ ot = NoOT

\* The inputs of transform and apply_operation, from bounded sets.
InitTransform ==
    /\ InitEvents
    /\ InitSessions
    /\ InitEndpoint
    /\ InitServices
    /\ InitClients
    /\ ot \in { OTInput(c, a, b) : c \in Contents, a \in Operations, b \in Operations }

Next ==
    \/ Produce
    \/ \E c \in Consumers :
        \/ ConsumerConnect(c)
        \/ Fetch(c)
        \/ FetchFails(c)
        \/ Sleep(c)
        \/ Handle(c)
        \/ Ack(c)
        \/ Backoff(c)
        \/ DeadLetter(c)
        \/ DeadLetterAck(c)

Spec == Init /\ [][Next]_vars

\* The steps consumer c takes when its await returns or raises: every
\* step but the read of consume, which blocks 5 seconds and starts again
\* for as long as there is nothing new.
ConsumerStep(c) ==
    \/ ConsumerConnect(c)
    \/ Sleep(c)
    \/ Handle(c)
    \/ Ack(c)
    \/ Backoff(c)
    \/ DeadLetter(c)
    \/ DeadLetterAck(c)

\* A read of a group that does not exist raises (NOGROUP).
NoGroupRead(c) ==
    /\ ~group.created
    /\ FetchFails(c)

\* The consumers under the scheduling of the event loop: a task whose
\* await is over takes its step, a read of a missing group raises, and a
\* consumer that reads new entries again and again has a read answered in
\* the end (the log becomes reachable).  A read with nothing new to hand
\* out may go on for ever.
Fairness ==
    \A c \in Consumers :
        /\ WF_vars(ConsumerStep(c))
        /\ WF_vars(NoGroupRead(c))
        /\ SF_vars(Fetch(c))

SpecLive == Init /\ [][Next]_vars /\ Fairness

\* The consumers with their tasks cancelled at any await.
NextShutdown ==
    \/ Next
    \/ \E c \in Consumers : Cancel(c)

SpecShutdown == Init /\ [][NextShutdown]_vars

NextPublisher == Publish

SpecPublisher == Init /\ [][NextPublisher]_vars

NextSessions ==
    \/ \E d \in DocumentIds, w \in WebSockets : Connect(d, w)
    \/ \E d \in DocumentIds, w \in WebSockets : Disconnect(d, w)
    \/ \E d \in DocumentIds : BroadcastStart(d)
    \/ \E w \in WebSockets : BroadcastSend(w)

SpecSessions == Init /\ [][NextSessions]_vars

NextTransform ==
    \/ OTTransform
    \/ OTApply
    \/ OTRoundTrip
    \/ OTBothOrders

SpecTransform == InitTransform /\ [][NextTransform]_vars

NextEndpoint ==
    \E w \in Endpoints :
        \/ EpAccept(w)
        \/ \E target \in WebSockets : EpSend(w, target)
        \/ EpPublish(w)
        \/ \E data \in Messages : EpReceive(w, data)
        \/ EpDisconnect(w)
        \/ EpReceiveError(w)
        \/ EpClose(w)
        \/ EpCancel(w)

SpecEndpoint == Init /\ [][NextEndpoint]_vars

NextLockout ==
    \/ \E t \in LoginTasks :
        \/ \E email \in Emails, password_ok \in BOOLEAN :
                LoginStart(t, email, password_ok)
        \/ LoginExecute(t)
        \/ LoginRecord(t)
        \/ LoginSetExpire(t)
    \/ \E email \in Emails : LockoutExpire(email)
    \/ \E email \in Emails : ResetAttempts(email)

SpecLockout == Init /\ [][NextLockout]_vars

NextRateLimit ==
    \/ \E t \in RateLimitTasks :
        \/ \E client \in Clients : RateLimitIncr(t, client)
        \/ RateLimitSetExpire(t)
    \/ \E client \in Clients : RateLimitExpire(client)

SpecRateLimit == Init /\ [][NextRateLimit]_vars

NextGateway ==
    \/ \E t \in GatewayCalls :
        \/ \E r \in GatewayRequests : GatewayGet(t, r[1], r[2])
        \/ GatewayExecute(t)
        \/ GatewayCallNext(t)
    \/ \E key \in GatewayKeys : GatewayExpire(key)

SpecGateway == Init /\ [][NextGateway]_vars

NextLoop ==
    \E w \in LoopEndpoints :
        \/ \E data \in LoopMessages(w, conn.task[w].n + 1) :
                LoopReceive(w, data)
        \/ LoopPublish(w)
        \/ \E target \in LoopEndpoints : LoopSend(w, target)

SpecLoop == Init /\ [][NextLoop]_vars

NextBreaker ==
    \/ AllowRequest
    \/ RecordSuccess
    \/ RecordFailure
    \/ Tick

SpecBreaker == Init /\ [][NextBreaker]_vars

NextConcurrent ==
    \/ \E r \in GatewayTasks : GwcGet(r) \/ GwcIncr(r)
    \/ GwcExpire

SpecConcurrent == Init /\ [][NextConcurrent]_vars

-----------------------------------------------------------------------------
(* Properties of EventConsumer                                             *)

\* The dead-letter entries that carry id as their original_id.
DeadLetterCount(id) ==
    Cardinality({ i \in 1 .. Len(streams[STREAMS.dead_letter]) :
                    streams[STREAMS.dead_letter][i].original_id = id })

\* A consumer is inside _process_event for id, or left consume from it.
InProcess(id) == \E c \in Consumers : cons[c].msg_id = id

\* C1: once the consumer has left _process_event for an entry whose handler
\* raised on each of max_retries attempts, the dead-letter topic holds
\* exactly one entry for it, it was acknowledged exactly once, and it was
\* delivered from the source topic once only.
C1_ExhaustedEntryDeadLetteredOnce ==
    \A id \in Ids :
        (hist.calls[id] = max_retries /\ hist.oks[id] = 0 /\ ~InProcess(id))
        => /\ DeadLetterCount(id) = 1
           /\ hist.acks[id] = 1
           /\ hist.delivered[id] = 1

\* C2: an entry whose handler returned is acknowledged by the time the
\* consumer turns to anything else, and is never on the dead-letter topic.
C2_HandledEntryAckedNotDeadLettered ==
    \A id \in Ids :
        hist.oks[id] = 1
        => /\ DeadLetterCount(id) = 0
           /\ (~InProcess(id) => hist.acks[id] = 1)

\* C3 as claimed: the handler is invoked at most max_retries times per entry
\* and no exception it raises leaves _process_event.
C3_NoHandlerExceptionEscapes ==
    /\ \A id \in Ids : hist.calls[id] <= max_retries
    /\ \A c \in Consumers : cons[c].pc # "exited"

\* C3 as amended: the handler is invoked at most max_retries times per
\* entry, and the only handler exception that leaves _process_event is one
\* that is no Exception (SystemExit); the entry it was raised for stays
\* pending.
C3_RetryCapAndExceptionCaught ==
    /\ \A id \in Ids : hist.calls[id] <= max_retries
    /\ \A c \in Consumers :
        cons[c].pc = "exited"
        => cons[c].exc = "SystemExit" /\ IsPending(group, cons[c].msg_id)

\* An entry went through max_retries handler calls that all raised, and
\* _process_event ended by dead-lettering it with the consumer running on.
C3_Witness ==
    \E id \in Ids :
        /\ hist.calls[id] = max_retries
        /\ hist.oks[id] = 0
        /\ DeadLetterCount(id) = 1
        /\ \A c \in Consumers : cons[c].pc # "exited"

\* C8: with a single consumer in the group and no handler call raising,
\* each return of the handler is for the next entry in append order: the
\* entry was not handled before and every earlier entry was.
C8_HandledInAppendOrderOnce ==
    [][\A c \in Consumers :
        ( /\ \A o \in Consumers \ {c} : cons'[o].pc = "init"
          /\ ~hist'.raised
          /\ cons[c].pc = "handle"
          /\ cons'[c].pc = "ack" )
        => /\ hist.oks[cons[c].msg_id] = 0
           /\ \A j \in 1 .. cons[c].msg_id - 1 : hist.oks[j] = 1]_vars

-----------------------------------------------------------------------------
(* Properties of EventPublisher                                            *)

\* The fields an event of a type must carry, by schema family.
RequiredFields(event_type) ==
    {"event_type", "timestamp", "payload"}
    \cup (IF event_type \in UserEventTypes THEN {"user_id"}
          ELSE IF event_type \in DocumentEventTypes THEN {"document_id"}
          ELSE {"document_id", "user_id"})

\* The primary topic the mapping gives a registered type.
MappedTopic(event_type) ==
    IF event_type \in UserEventTypes THEN STREAMS.user
    ELSE IF event_type \in DocumentEventTypes THEN STREAMS.document
    ELSE STREAMS.collaboration

\* C4: publish with an unregistered event_type fails with the
\* unknown-event-type error (ValueError) and appends to no topic.
C4_UnknownTypeRejected ==
    pub.event_type \in UnregisteredEventTypes
    => pub.outcome = "ValueError" /\ pub.appended = {}

\* publish was called with the unregistered 'user_promoted' and data that
\* every schema accepts, and raised ValueError.
C4_Witness ==
    /\ pub.event_type = <<"user", "promoted">>
    /\ pub.outcome = "ValueError"
    /\ \A f \in FieldNames : pub.data[f] = "valid"

\* C5: publish with a registered event_type and data that lacks, or holds
\* an unacceptable value for, a field of the type's schema raises the
\* validation error and appends to no topic.
C5_InvalidDataRejected ==
    ( /\ pub.event_type \in RegisteredEventTypes
      /\ \E f \in RequiredFields(pub.event_type) : pub.data[f] # "valid" )
    => pub.outcome = "ValidationError" /\ pub.appended = {}

\* publish was called with 'document_changed' and data lacking only
\* user_id, and raised the validation error.
C5_Witness ==
    /\ pub.event_type = <<"document", "changed">>
    /\ pub.data["user_id"] = "absent"
    /\ \A f \in FieldNames \ {"user_id"} : pub.data[f] = "valid"
    /\ pub.outcome = "ValidationError"

\* C6: the topic publish selects for a validated event is the one the
\* mapping names for its type.
C6_PrimaryTopicByMapping ==
    pub.stream # NoStream => pub.stream = MappedTopic(pub.event_type)

\* C7: a publish of a validated event whose primary append Redis accepts
\* returns normally with the entry on its primary topic, whether or not the
\* audit append fails, and with a copy on the audit topic when it succeeds.
C7_AuditNeverFailsPublish ==
    ( /\ pub.event_type \in RegisteredEventTypes
      /\ \A f \in RequiredFields(pub.event_type) : pub.data[f] = "valid"
      /\ pub.xadd1 )
    => /\ pub.outcome = "ok"
       /\ pub.stream \in pub.appended
       /\ (pub.xadd2 => STREAMS.audit \in pub.appended)

-----------------------------------------------------------------------------
(* Properties of ConnectionManager                                         *)

\* C9: a disconnect raises nothing, removes the given connection from the
\* given document and leaves every other registration as it was, so that it
\* changes nothing when the connection was not registered; and a broadcast
\* sends to every connection registered when it is called.
C9_DisconnectLeavesOthers ==
    [][ /\ \A d \in DocumentIds, w \in WebSockets :
            Disconnect(d, w)
            => /\ ~mgr'.raised
               /\ \A x \in DocumentIds :
                    Registered(active_connections', x) =
                        IF x = d THEN Registered(active_connections, x) \ {w}
                        ELSE Registered(active_connections, x)
               /\ (w \notin Registered(active_connections, d)
                    => active_connections' = active_connections)
        /\ \A d \in DocumentIds :
            BroadcastStart(d)
            => bc'.todo = Registered(active_connections, d) ]_vars

\* Three connections of d1 received the first broadcast, w3 was then
\* disconnected, the second broadcast reached w1 and w2 only, and a second
\* disconnect of w3 was the last call.
C9_Witness ==
    /\ Registered(active_connections, "d1") = {"w1", "w2"}
    /\ bc.n = 2 /\ bc.doc = "d1" /\ bc.todo = {}
    /\ inbox["w1"] = {1, 2}
    /\ inbox["w2"] = {1, 2}
    /\ inbox["w3"] = {1}
    /\ mgr = ManagerCall("disconnect", FALSE)

\* C10: active_connections maps no document_id to an empty set.
C10_NoEmptySessionSet ==
    /\ DOMAIN active_connections \subseteq DocumentIds
    /\ \A d \in DOMAIN active_connections : active_connections[d] # {}

\* The last connection of d2 was disconnected after it had received a
\* broadcast, and d2 is no key any more.
C10_Witness ==
    /\ mgr = ManagerCall("disconnect", FALSE)
    /\ inbox["w4"] # {}
    /\ DOMAIN active_connections = {"d1"}

\* C11: broadcast takes every connection registered for the document when
\* it is called as a connection to send to; each send, whether it returned
\* or raised, takes exactly its own connection off the ones still to be
\* sent to, and changes nothing the caller sees: no exception reaches it.
C11_BroadcastAttemptsAllSwallowsFailures ==
    [][ /\ \A d \in DocumentIds :
            BroadcastStart(d) =>
                /\ bc'.todo = Registered(active_connections, d)
                /\ ~mgr'.raised
        /\ \A w \in WebSockets :
            BroadcastSend(w) =>
                /\ bc'.todo = bc.todo \ {w}
                /\ mgr' = mgr
                /\ \A v \in WebSockets \ {w} : inbox'[v] = inbox[v] ]_vars

\* A finished broadcast to three connections: the send to w1 raised, the
\* sends to w2 and w3 delivered, and the call did not raise.
C11_Witness ==
    /\ bc.n = 1 /\ bc.doc = "d1" /\ bc.todo = {}
    /\ mgr = ManagerCall("broadcast", FALSE)
    /\ Registered(active_connections, "d1") = {"w1", "w2", "w3"}
    /\ inbox["w1"] = {} /\ inbox["w2"] = {1} /\ inbox["w3"] = {1}

-----------------------------------------------------------------------------
(* Properties of transform and apply_operation                             *)

\* C14: when B is an insert with B.pos <= A.pos, transform(A, B) has
\* position A.pos + len(B.text), and A's text and kind.
C14_InsertAtOrBeforeShiftsForward ==
    (ot.call = "transform" /\ ot.b.op_type = "insert" /\ ot.b.pos <= ot.a.pos)
    => /\ ot.out.pos = ot.a.pos + Len(ot.b.text)
       /\ ot.out.text = ot.a.text
       /\ ot.out.op_type = ot.a.op_type

\* An insert of three characters at A's own position moved A from 2 to 5.
C14_Witness ==
    /\ ot.call = "transform"
    /\ ot.b = Operation(2, <<"f", "o", "o">>, "insert")
    /\ ot.a.pos = 2
    /\ ot.out = [ot.a EXCEPT !.pos = 5]

\* C15: when B is a delete with B.pos < A.pos, transform(A, B) has position
\* A.pos - min(len(B.text), A.pos - B.pos), which is not negative and not
\* smaller than B.pos.
C15_DeleteBeforeShiftsBackClamped ==
    (ot.call = "transform" /\ ot.b.op_type = "delete" /\ ot.b.pos < ot.a.pos)
    => /\ ot.out.pos =
            ot.a.pos - Min(Len(ot.b.text), ot.a.pos - ot.b.pos)
       /\ ot.out.pos >= 0
       /\ ot.out.pos >= ot.b.pos

\* A delete of three characters one position before A: A moves back by
\* one only, onto the position of the delete.
C15_Witness ==
    /\ ot.call = "transform"
    /\ ot.b = Operation(1, <<"f", "o", "o">>, "delete")
    /\ ot.a.pos = 2
    /\ ot.out.pos = 1

\* C16: when B is an insert with B.pos > A.pos, or a delete with
\* B.pos >= A.pos, transform(A, B) equals A.
C16_LaterOperationLeavesUnchanged ==
    (/\ ot.call = "transform"
     /\ \/ ot.b.op_type = "insert" /\ ot.b.pos > ot.a.pos
        \/ ot.b.op_type = "delete" /\ ot.b.pos >= ot.a.pos)
    => ot.out = ot.a

\* A delete of two characters at A's own position left A where it was.
C16_Witness ==
    /\ ot.call = "transform"
    /\ ot.b = Operation(1, <<"o", "f">>, "delete")
    /\ ot.a.pos = 1
    /\ ot.out = ot.a

\* C17 as stated: for every content c, position p and text t, the insert
\* of t at p followed by the delete of t at p gives c back, and the delete
\* of t at p followed by the insert at p of the slice it removed gives c
\* back.
C17_RoundTripAnyPosition ==
    ot.call = "round_trip"
    => /\ ot.out.insert_delete = ot.c
       /\ ot.out.delete_insert = ot.c

\* C17 amended: the delete followed by the insert of the removed slice
\* gives c back for every position; the insert followed by the delete
\* gives c back when the position is within the content, p <= len(c).
C17_RoundTripWithinContent ==
    ot.call = "round_trip"
    => /\ ot.a.pos <= Len(ot.c) => ot.out.insert_delete = ot.c
       /\ ot.out.delete_insert = ot.c

\* Position 1 of a two-character content and a text of two characters:
\* the delete removed one character, and both round trips gave c back.
C17_Witness ==
    /\ ot.call = "round_trip"
    /\ ot.c = <<"f", "o">>
    /\ ot.a.pos = 1 /\ ot.a.text = <<"o", "f">>
    /\ ot.out.removed = <<"o">>
    /\ ot.out.insert_delete = ot.c
    /\ ot.out.delete_insert = ot.c

\* C18: a delete whose range reaches past the end of the content (its
\* position may be at or past the end too) returns the content up to
\* min(position, len(content)).
C18_DeletePastEndTruncates ==
    (/\ ot.call = "apply" /\ ot.a.op_type = "delete"
     /\ ot.a.pos + Len(ot.a.text) > Len(ot.c))
    => ot.out = SubSeq(ot.c, 1, Min(ot.a.pos, Len(ot.c)))

\* A delete of three characters at position 1 of "fo" returned "f".
C18_Witness ==
    /\ ot.call = "apply"
    /\ ot.c = <<"f", "o">>
    /\ ot.a = Operation(1, <<"f", "o", "o">>, "delete")
    /\ ot.out = <<"f">>

\* C19: from the empty content, with A the insert of "foo" at 0 and B the
\* delete of "" at 0, applying A then B transformed against A, and
\* applying B then A transformed against B, both end with "foo".
C19_EmptyDeleteScenarioConverges ==
    (/\ ot.call = "both_orders" /\ ot.c = <<>>
     /\ ot.a = Operation(0, <<"f", "o", "o">>, "insert")
     /\ ot.b = Operation(0, <<>>, "delete"))
    => /\ ot.out.a_then_b = <<"f", "o", "o">>
       /\ ot.out.b_then_a = <<"f", "o", "o">>

\* The scenario ran in both orders.
C19_Witness ==
    /\ ot.call = "both_orders" /\ ot.c = <<>>
    /\ ot.a = Operation(0, <<"f", "o", "o">>, "insert")
    /\ ot.b = Operation(0, <<>>, "delete")
    /\ ot.out = [a_then_b |-> <<"f", "o", "o">>,
                 b_then_a |-> <<"f", "o", "o">>]

-----------------------------------------------------------------------------
(* Properties of websocket_endpoint                                        *)

\* The entries of a sequence.
Range(s) == { s[i] : i \in 1..Len(s) }

\* C12: an endpoint call that has ended, for whatever reason, is no
\* longer registered, and its user_left event is on the document's stream
\* and was sent to the connections still registered.
C12_EndedTaskRemovedAndAnnounced ==
    \A w \in Endpoints :
        task[w].pc \in Ended
        => LET d == DocOf(w)
               leave_event == Event("user_left", UserOf(w), "absent")
           IN  /\ w \notin Registered(active_connections, d)
               /\ leave_event \in Range(doc_stream[d])
               /\ \A v \in Registered(active_connections, d) :
                    leave_event \in inbox[v]

\* The step ends the broadcast of endpoint call w.
EndsBroadcast(w) ==
    /\ \E target \in WebSockets : EpSend(w, target)
    /\ task'[w].pc # "broadcast"

\* C13: a join, a leave, a document_change and a document_saved event is
\* appended to the document's stream by the step that publishes it and,
\* when its broadcast is over, was sent to every connection registered for
\* the document; an endpoint call ends with its leave event appended; the
\* step for a cursor_position message appends nothing.
C13_BroadcastAndAppendedOnce ==
    [][\A w \in Endpoints :
        LET d == DocOf(w)
            u == UserOf(w)
        IN  /\ EpPublish(w)
                => doc_stream' =
                        [doc_stream EXCEPT ![d] = Append(@, task[w].event)]
            /\ EndsBroadcast(w)
                => \A v \in Registered(active_connections', d) :
                        task[w].event \in inbox'[v]
            /\ (task[w].pc \notin Ended /\ task'[w].pc \in Ended)
                => /\ task[w].event = Event("user_left", u, "absent")
                   /\ doc_stream'[d] = Append(doc_stream[d], task[w].event)
            /\ \A c \in Cursors :
                EpReceive(w, Message("cursor_position", "absent", c))
                => doc_stream' = doc_stream
      ]_vars

\* The step is the one of a cursor_position message that has a cursor.
CursorStep ==
    \E w \in Endpoints, c \in Cursors :
        EpReceive(w, Message("cursor_position", "absent", c))

\* C20: the step for a cursor_position message of user u on document d
\* sets the entry of (d, u) to the message's cursor, leaves every other
\* entry as it was, and begins one broadcast of a cursor_position event
\* to the connections registered for d, after which the endpoint receives
\* again; no other step changes the map, so every entry is the cursor of
\* the last such message.
C20_CursorLastWriteWins ==
    [][ /\ \A w \in Endpoints, c \in Cursors :
            EpReceive(w, Message("cursor_position", "absent", c))
            => LET d == DocOf(w)
                   u == UserOf(w)
               IN  /\ CursorOf(user_cursors', d, u) = c
                   /\ \A d2 \in DocumentIds, u2 \in UserIds :
                        <<d2, u2>> # <<d, u>>
                        => CursorOf(user_cursors', d2, u2)
                            = CursorOf(user_cursors, d2, u2)
                   /\ w \in Registered(active_connections, d)
                   /\ task'[w] =
                        EndpointTask("broadcast",
                                     Event("cursor_position", u, c),
                                     Registered(active_connections, d))
        /\ \A w \in Endpoints :
            (EndsBroadcast(w) /\ task[w].event.type = "cursor_position")
            => task'[w] = At("receive")
        /\ ~CursorStep => user_cursors' = user_cursors
      ]_vars

\* u1's first cursor_position message, with c1, was sent to w2; its
\* second, with c2, has replaced the entry and is being broadcast to both
\* connections of d1.
C20_Witness ==
    /\ Event("cursor_position", "u1", "c1") \in inbox["w2"]
    /\ task["w1"] = EndpointTask("broadcast",
                                 Event("cursor_position", "u1", "c2"),
                                 {"w1", "w2"})
    /\ CursorOf(user_cursors, "d1", "u1") = "c2"
    /\ CursorOf(user_cursors, "d1", "u2") = "absent"

-----------------------------------------------------------------------------
(* Properties of the consume loop                                          *)

Appended(id) == Len(streams[SourceStream]) >= id

SomeExited == \E c \in Consumers : cons[c].pc = "exited"

\* Consumer c has entry id in hand: in _process_event or in its batch.
Holds(c, id) ==
    \/ cons[c].msg_id = id
    \/ \E k \in 1 .. Len(cons[c].batch) : cons[c].batch[k] = id

\* C21: a failed xreadgroup puts consume to sleep, the sleep is followed by
\* another read, and every appended entry is delivered in the end, unless
\* a handler has stopped a consumer.  (The steps do as stated; the
\* delivery fails when connect has swallowed the failure of xgroup_create
\* and the group does not exist.)
C21_FetchFailureRecovers ==
    /\ [][\A c \in Consumers :
            /\ FetchFails(c) => cons'[c].pc = "sleep"
            /\ Sleep(c) => cons'[c].pc = "fetch"]_vars
    /\ \A id \in Ids :
        Appended(id) ~> (hist.delivered[id] >= 1 \/ SomeExited)

\* C22: no entry is delivered twice or in the hands of two consumers, and
\* every appended entry is handed to a handler in the end, unless a handler
\* has stopped a consumer.  (No entry has two consumers; an entry is
\* never handed to a handler when the group does not exist, or when its
\* batch was dropped by an exception of the dead-letter xadd or xack.)
C22_EachEntryToExactlyOneConsumer ==
    /\ [](\A id \in Ids :
            /\ hist.delivered[id] <= 1
            /\ Cardinality({ c \in Consumers : Holds(c, id) }) <= 1)
    /\ \A id \in Ids :
        Appended(id) ~> (hist.calls[id] >= 1 \/ SomeExited)

\* C28: every entry in the pending list leaves it in the end, unless a
\* handler has stopped a consumer.
C28_PendingEntryEventuallyLeaves ==
    \A id \in Ids :
        IsPending(group, id) ~> (~IsPending(group, id) \/ SomeExited)

\* C23: connect on a group that exists leaves the group as it is (last
\* delivered id, pending list) and does not raise: the consumer goes on to
\* read.  Creating a group twice gives what creating it once gives.
C23_ConnectOnExistingGroupIsNoOp ==
    /\ [][\A c \in Consumers :
            (ConsumerConnect(c) /\ group.created)
            => /\ group' = group
               /\ cons'[c] = IdleConsumer("fetch")]_vars
    /\ [](XGroupCreate(XGroupCreate(group)) = XGroupCreate(group))

\* Both consumers have connected; the group exists and holds two entries
\* delivered to c1 and still pending.
C23_Witness ==
    /\ \A c \in Consumers : cons[c].pc # "init"
    /\ cons["c2"] = IdleConsumer("fetch")
    /\ group = [created |-> TRUE, last_delivered |-> 2,
                pending |-> {<<1, "c1">>, <<2, "c1">>}]

\* C27: an entry whose max_retries attempts all failed is acknowledged only
\* when the dead-letter stream holds it with its event and its id; the
\* acknowledgment after the retries finds it there; and a dead-letter append
\* that fails leaves the pending list as it is.
C27_DeadLetterBeforeAck ==
    /\ [](\A id \in Ids :
            (hist.calls[id] = max_retries /\ hist.oks[id] = 0
             /\ hist.acks[id] >= 1)
            => \E k \in 1 .. Len(streams[STREAMS.dead_letter]) :
                streams[STREAMS.dead_letter][k] =
                    [event |-> streams[SourceStream][id].event,
                     original_id |-> id])
    /\ [][\A c \in Consumers :
            /\ DeadLetterAck(c) => DeadLetterCount(cons[c].msg_id) >= 1
            /\ (DeadLetter(c) /\ streams' = streams)
                => /\ group' = group
                   /\ hist'.acks = hist.acks]_vars

\* Entry 1 failed five times, was appended to the dead-letter stream and
\* then acknowledged.
C27_Witness ==
    /\ hist.calls[1] = max_retries /\ hist.oks[1] = 0 /\ hist.acks[1] = 1
    /\ DeadLetterCount(1) = 1
    /\ ~IsPending(group, 1)

\* C29: a consumer whose task was cancelled holds no entry in the pending
\* list: the entry it was processing or backing off on was acknowledged
\* before it stopped.
C29_ShutdownCompletesInFlightEntry ==
    \A c \in Consumers :
        cons[c].exc = "CancelledError"
        => \A p \in group.pending : p[2] # c

\* The seconds slept after the k-th failed attempt.
BackoffSeconds == <<2, 4, 8, 16, 32>>

\* C30 as stated: the sleep after the k-th failed attempt is 2^k seconds,
\* and each sleep is followed by another attempt on the same entry.
C30_SleepOnlyBetweenAttempts ==
    /\ [](\A c \in Consumers :
            cons[c].pc = "backoff"
            => /\ cons[c].retries \in 1 .. max_retries
               /\ cons[c].delay = BackoffSeconds[cons[c].retries])
    /\ [][\A c \in Consumers :
            Backoff(c) => /\ cons'[c].pc = "handle"
                          /\ cons'[c].msg_id = cons[c].msg_id]_vars

\* C30 amended: the sleep after the k-th failed attempt is 2^k seconds for
\* k = 1 .. max_retries, the last one included; a sleep is followed by
\* another attempt exactly when k < max_retries, and by the dead-letter
\* append otherwise, after which the entry gets no attempt and no sleep.
C30_BackoffDoublesUpToCap ==
    /\ [](\A c \in Consumers :
            cons[c].pc = "backoff"
            => /\ cons[c].retries \in 1 .. max_retries
               /\ cons[c].delay = BackoffSeconds[cons[c].retries])
    /\ [][\A c \in Consumers :
            /\ Backoff(c)
                => /\ cons'[c].msg_id = cons[c].msg_id
                   /\ cons'[c].pc = IF cons[c].retries < max_retries
                                    THEN "handle" ELSE "dlq_add"
            /\ cons[c].pc \in {"dlq_add", "dlq_ack"}
                => /\ cons'[c].pc # "backoff"
                   /\ cons'[c].pc = "handle"
                        => cons'[c].msg_id # cons[c].msg_id]_vars

\* The fifth attempt on entry 1 has failed and the consumer sleeps 32
\* seconds.
C30_Witness ==
    /\ cons["c1"].pc = "backoff"
    /\ cons["c1"].msg_id = 1
    /\ cons["c1"].retries = 5
    /\ cons["c1"].delay = 32
    /\ hist.calls[1] = 5

-----------------------------------------------------------------------------
(* Properties of the user service                                          *)

\* C24: a login of an email made after max_attempts logins of it have
\* failed, within the lockout window, is answered 403 at once and issues
\* no tokens, whether or not its password is right.
C24_LockedOutAfterMaxAttempts ==
    [][\A t \in LoginTasks, email \in Emails, password_ok \in BOOLEAN :
        (/\ LoginStart(t, email, password_ok)
         /\ login.failed[email] >= max_attempts)
        => /\ login'.last = LoginResult(email, password_ok, 403, FALSE)
           /\ login'.task[t] = IdleLogin]_vars

\* C25: the request of a client that INCR counts as the k-th of the
\* window reaches the endpoint when k <= max_requests, and is answered 429
\* without reaching it when k > max_requests.  The first one reaches the
\* endpoint once its EXPIRE has returned, the others at once.
C25_FirstHundredPassThenLimited ==
    [][\A t \in RateLimitTasks :
        /\ \A client \in Clients :
            RateLimitIncr(t, client)
            => LET k == rl[client] + 1
               IN  IF k = 1
                   THEN rl_task'.task[t] =
                            RateLimitTask("expire", client, 1)
                   ELSE /\ rl_last'.client = client
                        /\ rl_last'.count = k
                        /\ k <= max_requests
                            => rl_last'.reached /\ rl_last'.status # 429
                        /\ k > max_requests
                            => ~rl_last'.reached /\ rl_last'.status = 429
        /\ RateLimitSetExpire(t)
            => /\ rl_task.task[t].count = 1
               /\ rl_last' =
                    RateLimitResult(rl_task.task[t].client, 1, 200, TRUE)
      ]_vars

\* The 101st request of ip1 in its window was answered 429.
C25_Witness ==
    /\ rl["ip1"] = max_requests + 1
    /\ rl_last = RateLimitResult("ip1", max_requests + 1, 429, FALSE)

\* C26: once 101 requests to /api/v1/health were made in one window, one
\* of them at least was answered 429.
C26_HealthLimitedWithin101 ==
    gw.health >= 101 => gw.health_limited >= 1

-----------------------------------------------------------------------------
(* Further properties of websocket_endpoint                                *)

\* C31: when the append of a document_change or document_saved event to
\* the document's stream fails, the endpoint still goes on to broadcast
\* the event to the connections registered for the document.
C31_PublishFailureKeepsBroadcast ==
    [][\A w \in Endpoints :
        (/\ EpPublish(w)
         /\ task[w].event.type \in {"document_change", "document_saved"}
         /\ doc_stream' = doc_stream)
        => task'[w] =
            EndpointTask("broadcast", task[w].event,
                         Registered(active_connections, DocOf(w)))
      ]_vars

-----------------------------------------------------------------------------
(* Further properties of transform                                         *)

\* C33: after transform(op1, op2) has returned, the operation passed as
\* op1 has the position, text and kind it had before the call (ot.a is
\* that value, ot.op1 the object after the call); op2 is never assigned to.
C33_TransformLeavesArgumentsUnchanged ==
    ot.call = "transform" => ot.op1 = ot.a

-----------------------------------------------------------------------------
(* Properties of the receive loop                                          *)

\* The entries of a sequence of messages that arrived on connection w.
FromConnection(messages, w) ==
    SelectSeq(messages, LAMBDA e : e.websocket = w)

\* C32: the document_change and document_saved messages of a connection
\* that are on the document's stream are there in the order they arrived,
\* none missing before the last and none twice, and those sent to a
\* co-present connection were sent in the order they arrived, however the
\* steps of the two endpoint calls interleave.
C32_PerConnectionOrderKept ==
    \A w \in LoopEndpoints :
        /\ LET s == FromConnection(conn.stream, w)
           IN  \A i \in 1..Len(s) : s[i].seq = i
        /\ \A target \in LoopEndpoints :
            LET s == FromConnection(conn.sent[target], w)
            IN  \A i, j \in 1..Len(s) : i < j => s[i].seq < s[j].seq

\* Two messages of w1 are on the stream and were sent to w2, with a
\* message of w2 between them in both.
C32_Witness ==
    /\ Len(conn.stream) = 3
    /\ conn.stream[1].websocket = "w1"
    /\ conn.stream[2].websocket = "w2"
    /\ conn.stream[3].websocket = "w1"
    /\ conn.sent["w2"] = conn.stream

\* The document_change entries of the stream that arrived on another
\* connection than w and have not been sent to w.
ConcurrentChanges(w) ==
    SelectSeq(conn.stream,
              LAMBDA e : /\ e.type = "document_change"
                         /\ e.websocket # w
                         /\ \A i \in 1..Len(conn.sent[w]) :
                                conn.sent[w][i] # e)

\* C34: when a document_change of a connection is appended while the
\* stream holds a document_change of another connection that this one has
\* not been sent, the operation appended, and then broadcast, is the one
\* received transformed against the last such operation.
C34_ConcurrentChangeTransformed ==
    [][\A w \in LoopEndpoints :
        (/\ LoopPublish(w)
         /\ conn'.stream # conn.stream
         /\ conn.task[w].data.type = "document_change"
         /\ ConcurrentChanges(w) # <<>>)
        => LET prior == ConcurrentChanges(w)
               adjusted == transform(conn.task[w].data.operation,
                                     prior[Len(prior)].operation)
           IN  /\ conn'.stream[Len(conn'.stream)].operation = adjusted
               /\ conn'.task[w].data.operation = adjusted
      ]_vars

-----------------------------------------------------------------------------
(* Further properties of the cursor map                                    *)

\* C35: the cursor map holds no entry for the user and document of an
\* endpoint call that has ended, and no entry at all for a document that
\* has no connection registered.
C35_CursorsScopedToConnection ==
    /\ \A w \in Endpoints :
        task[w].pc \in Ended
        => CursorOf(user_cursors, DocOf(w), UserOf(w)) = "absent"
    /\ \A d \in DocumentIds :
        Registered(active_connections, d) = {}
        => \A u \in UserIds : CursorOf(user_cursors, d, u) = "absent"

-----------------------------------------------------------------------------
(* Further properties of _process_event                                    *)

\* C36: once a handler call for an entry has returned, no step calls the
\* handler for that entry again and none appends it to the dead-letter
\* topic, whatever the acknowledgment that follows does.
C36_HandledEntryNotHandledAgain ==
    [][\A id \in Ids :
        hist.oks[id] = 1
        => /\ hist.calls'[id] = hist.calls[id]
           /\ DeadLetterCount(id)' = 0
      ]_vars

-----------------------------------------------------------------------------
(* Convergence of the two application orders                               *)

\* C37: for a content c and operations a and b, applying a and then b
\* transformed against a gives the content that applying b and then a
\* transformed against b gives, each transform on copies of a and b.
C37_BothOrdersConverge ==
    ot.call = "both_orders" => ot.out.a_then_b = ot.out.b_then_a

-----------------------------------------------------------------------------
(* Properties of CircuitBreaker                                            *)

\* C38: the breaker is OPEN only with failure_count >= failure_threshold;
\* allow_request on an OPEN breaker returns False and leaves it OPEN until
\* more than recovery_timeout seconds have passed since the last failure,
\* and then makes it HALF_OPEN and returns True; record_failure on a
\* HALF_OPEN breaker makes it OPEN; record_success makes any breaker
\* CLOSED with failure_count 0.
C38_CircuitBreakerStates ==
    /\ [](breaker.cb.state = "OPEN"
            => breaker.cb.failure_count >= failure_threshold)
    /\ [][ /\ (AllowRequest /\ breaker.cb.state = "OPEN")
                => IF breaker.now - breaker.cb.last_failure_time
                        > recovery_timeout
                   THEN /\ breaker'.cb.state = "HALF_OPEN"
                        /\ breaker'.returned = "True"
                   ELSE /\ breaker'.cb.state = "OPEN"
                        /\ breaker'.returned = "False"
           /\ (RecordFailure /\ breaker.cb.state = "HALF_OPEN")
                => breaker'.cb.state = "OPEN"
           /\ RecordSuccess
                => /\ breaker'.cb.state = "CLOSED"
                   /\ breaker'.cb.failure_count = 0
         ]_vars

\* The breaker that five failures at second 0 opened has let a request
\* through at second 31 and is HALF_OPEN.
C38_Witness ==
    /\ breaker.cb = CircuitBreaker("HALF_OPEN", failure_threshold, 0)
    /\ breaker.now = recovery_timeout + 1
    /\ breaker.call = "allow_request"
    /\ breaker.returned = "True"

-----------------------------------------------------------------------------
(* Properties of the gateway rate limiter under concurrent requests        *)

\* C39: the requests of one user to one endpoint class that were passed
\* on to call_next within one window of the key are never more than the
\* limit configured for the class.
C39_PassedWithinLimit ==
    gwc.passed <= limit_config(ConcurrentKey[2]).requests

====
